---- MODULE Spec2Model ----
(***************************************************************************)
(* Model of the meshtastic-bot interaction handlers.                       *)
(*                                                                         *)
(* Two parts share this module:                                            *)
(*   - the release list cache and the comparison cache of the changelog    *)
(*     handler (updateReleaseCache, getChangelogMessage), run by           *)
(*     concurrent callers under the two sync.RWMutex locks;                *)
(*   - the multi-part modal sessions kept in the modalStates map           *)
(*     (handleBug/handleFeature, handleModalSubmit,                        *)
(*     handleModalContinuation, handleButtonClick).                        *)
(*                                                                         *)
(* Strings that the code splits, joins or concatenates are sequences of    *)
(* one-character strings; strings the code only compares are TLA+ strings. *)
(***************************************************************************)
EXTENDS Integers, Sequences, FiniteSets, TLC

\* ------------------------------------------------------------------------
\* Bounds of the model
\* ------------------------------------------------------------------------

\* number of goroutines calling into the caches
NumCallers == 2

\* calls into the caches that are started in one run
MaxCalls == 3

\* last tick of the clock
MaxTime == 2

\* interactions (commands, form submissions, button clicks) delivered in one run
MaxInteractions == 6

\* handler runs that can wait for CreateIssue at the same time
NumRuns == 1

\* edits of the issue template behind the template URL in one run
MaxEdits == 1

\* goroutines that can be inside a handler at the same time
NumGoroutines == 2

\* longest placeholder text, in bytes
MaxPlaceholderLen == 104

\* most releases in the cached list
MaxReleases == 27

\* ------------------------------------------------------------------------
\* Time.  One tick is a duration on the scale of the cache TTL.  The wall
\* clock read by time.Now and time.Since is not tied to the scheduler: it
\* may advance between any two steps of any goroutine.
\* ------------------------------------------------------------------------

\* ReleaseCacheTTL = 1 * time.Hour, in ticks
ReleaseCacheTTL == 2

\* ComparisonCacheTTL = 1 * time.Hour, in ticks
ComparisonCacheTTL == 2

\* time.Time{}: the zero time lies further back than any TTL
ZeroTime == 0 - 1000

\* time.Since(t) at clock value n
Since(n, t) == n - t

Callers == 1..NumCallers

\* ------------------------------------------------------------------------
\* Upstream payloads
\* ------------------------------------------------------------------------

Tag1 == <<"v", "1">>

Tag2 == <<"V", "2">>

\* the lists GithubClient.GetReleases may return on success
ReleaseLists == {<< >>, <<Tag1>>, <<Tag1, Tag2>>}

Ver1 == <<"1">>

Ver2 == <<"2">>

\* the (base, head) arguments callers pass to getChangelogMessage
ComparePairs == {<<Ver1, Ver2>>, <<Ver2, Ver1>>}

\* the comparisons GithubClient.CompareCommits may return on success
\* (identified by their total commit count)
Comparisons == {1, 2}

\* fmt.Sprintf("%s...%s", base, head)
CacheKey(base, head) == base \o <<".", ".", ".">> \o head

\* formatChangelogMessage: the message is determined by base, head and
\* the comparison; it is kept as that triple
formatChangelogMessage(base, head, comparison) ==
    [base |-> base, head |-> head, total |-> comparison]

NoMessage == [base |-> << >>, head |-> << >>, total |-> 0]

VARIABLES
    now,                  \* the clock
    releaseCache,         \* [isNil, items]: the cached release list
    lastCacheUpdate,      \* time of the last successful list fetch
    releaseCacheMutex,    \* [writer, readers]
    comparisonCache,      \* cache key -> [Message, Timestamp]
    comparisonCacheMutex, \* [writer, readers]
    call,                 \* per goroutine: the call it is running
    workload,             \* the cache this run's calls go to
    started,              \* calls started so far
    releasesLog,          \* the GetReleases calls made: [calls, errs, empties,
                          \*   failed: the last one to return failed]
    compareLog            \* the CompareCommits calls made: [calls, errs,
                          \*   failed: the keys whose last call failed]

VARIABLES
    modalConfig,          \* the loaded modal configuration, per command; the
                          \*   fields of the bug form are those of the issue
                          \*   template behind its URL
    edits,                \* edits the issue template has had so far
    modalStates,          \* session key -> ModalState
    sessionLog,           \* per key: last store write, the field ids merged since
                          \*   and the CreateIssue calls made for the session
    forms,                \* the modals shown to users
    buttons,              \* the Continue buttons shown to users
    runs,                 \* handler runs waiting for CreateIssue to return, or
                          \*   between its return and the delete of the session
    pending,              \* command runs between GetAllFieldsForModal and GetModel
    lastRun,              \* what the most recent handler step did
    issueCalls,           \* CreateIssue calls made so far
    interactions          \* interactions delivered so far

VARIABLES
    access,               \* per goroutine: its access to the session store map
    crashed               \* the runtime has stopped the process

storeVars == <<access, crashed>>

VARIABLES
    placeholder,          \* a field's placeholder text, as its bytes
    truncated,            \* the results of truncatePlaceholder applied to it
    applied               \* how many times it has been applied

VARIABLES
    cachedTags,           \* the tag names of the cached releases, in cache order
    givenOptions,         \* the options of an autocomplete interaction
    sentChoices,          \* the choices of the response to it
    responded             \* the response has been sent

choiceVars == <<cachedTags, givenOptions, sentChoices, responded>>

VARIABLES
    issued,               \* the session key the bot put into an identifier
    recovered             \* the keys the handlers recovered from the identifiers

keyVars == <<issued, recovered>>

VARIABLES
    repoCache,            \* LiveGitHubClient.repoCache: "owner/repo" -> repository
    lookup,               \* per goroutine: its handleRepo / GetRepository run
    repoLog,              \* per key: the upstream calls made and those that failed
    repoStarted           \* the handleRepo runs started

repoVars == <<repoCache, lookup, repoLog, repoStarted>>

funcVars == <<placeholder, truncated, applied, choiceVars, keyVars, repoVars>>

modalVars == <<modalConfig, edits, modalStates, sessionLog, forms, buttons, runs,
               pending, lastRun, issueCalls, interactions>>

cacheVars == <<now, releaseCache, lastCacheUpdate, releaseCacheMutex,
               comparisonCache, comparisonCacheMutex, call, workload, started,
               releasesLog, compareLog>>

vars == <<cacheVars, modalVars, storeVars, funcVars>>

\* ------------------------------------------------------------------------
\* sync.RWMutex
\* ------------------------------------------------------------------------

\* The mutex is held by one writer or by a set of readers.  A goroutine
\* whose Lock call finds readers inside is recorded as the waiting writer:
\* from then on RLock callers block until that writer has had the lock.
NoWriter == 0

FreeMutex == [writer |-> NoWriter, readers |-> {}, waiting |-> NoWriter]

\* mutant: a read lock is granted while a writer holds the mutex
CanRLockBesideWriter(m) == TRUE

\* RLock returns: no writer holds the mutex and none waits for it
CanRLock(m) == m.writer = NoWriter /\ m.waiting = NoWriter

RLock(m, c) == [m EXCEPT !.readers = @ \cup {c}]

RUnlock(m, c) == [m EXCEPT !.readers = @ \ {c}]

\* Lock returns to c: nobody holds the mutex and no other writer waits
CanLock(m, c) ==
    m.writer = NoWriter /\ m.readers = {} /\ m.waiting \in {NoWriter, c}

\* the Lock call of c has to wait for the readers inside
MustWait(m, c) ==
    m.writer = NoWriter /\ m.readers # {} /\ m.waiting = NoWriter

LockWait(m, c) == [m EXCEPT !.waiting = c]

Lock(m, c) == [m EXCEPT !.writer = c, !.waiting = NoWriter]

\* mutant: the deferred Unlock releases nothing
UnlockNothing(m) == m

Unlock(m) == [m EXCEPT !.writer = NoWriter]

\* ------------------------------------------------------------------------
\* Freshness checks
\* ------------------------------------------------------------------------

NilSlice == [isNil |-> TRUE, items |-> << >>]

Slice(items) == [isNil |-> FALSE, items |-> items]

\* mutant: the TTL comparison lets an entry of age exactly TTL pass
ReleaseCacheFreshInclusive(n, cache, last) ==
    Since(n, last) <= ReleaseCacheTTL /\ Len(cache.items) > 0

\* mutant: the payload is not looked at
ReleaseCacheFreshByAge(n, cache, last) == Since(n, last) < ReleaseCacheTTL

\* feature_handler.go:456 and :466
\*   time.Since(lastCacheUpdate) < cacheDuration && len(releaseCache) > 0
ReleaseCacheFresh(n, cache, last) ==
    Since(n, last) < ReleaseCacheTTL /\ Len(cache.items) > 0

\* mutant: no second check after the write lock is taken
ReleaseCacheRecheckSkipped(n, cache, last) == FALSE

\* mutant: the age comparison of the second check is turned around
ReleaseCacheRecheckTurned(n, cache, last) ==
    Since(n, last) > ReleaseCacheTTL /\ Len(cache.items) > 0

\* feature_handler.go:466: the double check after acquiring the write lock
ReleaseCacheRecheck(n, cache, last) == ReleaseCacheFresh(n, cache, last)

\* feature_handler.go:333-334 and :346-347
\*   cached, exists := comparisonCache[cacheKey];
\*   exists && time.Since(cached.Timestamp) < comparisonCacheTTL
ComparisonFresh(n, cache, key) ==
    /\ key \in DOMAIN cache
    /\ Since(n, cache[key].Timestamp) < ComparisonCacheTTL

\* mutant: no second check after the write lock is taken
ComparisonRecheckSkipped(n, cache, key) == FALSE

\* feature_handler.go:346-350: the double check after acquiring the write lock
ComparisonRecheck(n, cache, key) == ComparisonFresh(n, cache, key)

\* mutant: a store into the map drops the entries of the other keys
MapPutAlone(m, k, v) == [x \in {k} |-> v]

\* comparisonCache[cacheKey] = &CachedComparison{...}
MapPut(m, k, v) == [x \in DOMAIN m \cup {k} |-> IF x = k THEN v ELSE m[x]]

\* delete(m, k)
MapDelete(m, k) == [x \in DOMAIN m \ {k} |-> m[x]]

EmptyMap == [x \in {} |-> 0]

\* ------------------------------------------------------------------------
\* Calls into the caches
\* ------------------------------------------------------------------------

\* what a call's first look at the list cache finds (recorded in the call
\* for the properties; the code branches on ReleaseCacheFresh only)
ListEntry(n, cache, last) ==
    IF cache.isNil /\ last = ZeroTime THEN "cold"
    ELSE IF Since(n, last) >= ReleaseCacheTTL THEN "expired"
    ELSE IF Len(cache.items) = 0 THEN "empty"
    ELSE "fresh"

\* what a call's first look at the comparison cache finds for its key
KeyedEntry(n, cache, key) ==
    IF key \notin DOMAIN cache THEN "cold"
    ELSE IF Since(n, cache[key].Timestamp) >= ComparisonCacheTTL THEN "expired"
    ELSE "fresh"

\* a goroutine that is not inside a call
IdleCall == [pc |-> "idle", kind |-> "none", base |-> << >>, head |-> << >>,
             ret |-> "none", msg |-> NoMessage, fetched |-> 0, saw |-> "none",
             responses |-> << >>, handler |-> "none", options |-> << >>]

\* the goroutine c enters updateReleaseCache
CallUpdateReleaseCache(c) ==
    /\ UNCHANGED <<modalVars, storeVars, funcVars>>
    /\ call[c].pc \in {"idle", "done"}
    /\ workload = "releases"
    /\ started < MaxCalls
    /\ started' = started + 1
    /\ call' = [call EXCEPT ![c] =
                  [IdleCall EXCEPT !.pc = "check1", !.kind = "update"]]
    /\ UNCHANGED <<now, releaseCache, lastCacheUpdate, releaseCacheMutex,
                   comparisonCache, comparisonCacheMutex, workload,
                   releasesLog, compareLog>>

\* updateReleaseCache, feature_handler.go:455-460: the check under RLock
UpdateCheck1(c) ==
    /\ UNCHANGED <<modalVars, storeVars, funcVars>>
    /\ call[c].pc = "check1" /\ call[c].kind = "update"
    /\ CanRLock(releaseCacheMutex)
    /\ IF ReleaseCacheFresh(now, releaseCache, lastCacheUpdate)
          THEN call' = [call EXCEPT ![c].pc = "done", ![c].ret = "nil",
                          ![c].saw = ListEntry(now, releaseCache, lastCacheUpdate)]
          ELSE call' = [call EXCEPT ![c].pc = "lock",
                          ![c].saw = ListEntry(now, releaseCache, lastCacheUpdate)]
    /\ UNCHANGED <<now, releaseCache, lastCacheUpdate, releaseCacheMutex,
                   comparisonCache, comparisonCacheMutex, workload, started,
                   releasesLog, compareLog>>

\* updateReleaseCache, feature_handler.go:462-471: Lock, the second check,
\* and the start of the GetReleases call
UpdateLock(c) ==
    /\ UNCHANGED <<modalVars, storeVars, funcVars>>
    /\ call[c].pc = "lock" /\ call[c].kind = "update"
    /\ CanLock(releaseCacheMutex, c)
    /\ IF ReleaseCacheRecheck(now, releaseCache, lastCacheUpdate)
          THEN /\ call' = [call EXCEPT ![c].pc = "done", ![c].ret = "nil"]
               /\ releaseCacheMutex' = Unlock(Lock(releaseCacheMutex, c))
          ELSE /\ call' = [call EXCEPT ![c].pc = "fetch", ![c].fetched = @ + 1]
               /\ releaseCacheMutex' = Lock(releaseCacheMutex, c)
    /\ releasesLog' = [releasesLog EXCEPT !.calls =
                         @ + (IF call'[c].pc = "fetch" THEN 1 ELSE 0)]
    /\ UNCHANGED <<now, releaseCache, lastCacheUpdate,
                   comparisonCache, comparisonCacheMutex, workload, started, compareLog>>

\* updateReleaseCache, feature_handler.go:462: Lock is called while readers
\* hold the mutex; the call waits for them and keeps new readers out.  (The
\* comparison mutex is never held by a reader across a step, so that its
\* Lock calls never meet readers.)
UpdateLockWait(c) ==
    /\ UNCHANGED <<modalVars, storeVars, funcVars>>
    /\ call[c].pc = "lock" /\ call[c].kind = "update"
    /\ MustWait(releaseCacheMutex, c)
    /\ releaseCacheMutex' = LockWait(releaseCacheMutex, c)
    /\ UNCHANGED <<now, releaseCache, lastCacheUpdate, call,
                   comparisonCache, comparisonCacheMutex, workload, started,
                   releasesLog, compareLog>>

\* updateReleaseCache, feature_handler.go:471-478: GetReleases returns
\* a list; it is stored with the current time
UpdateFetchOk(c, list) ==
    /\ UNCHANGED <<modalVars, storeVars, funcVars>>
    /\ call[c].pc = "fetch" /\ call[c].kind = "update"
    /\ releaseCacheMutex.writer = c
    /\ releaseCache' = Slice(list)
    /\ lastCacheUpdate' = now
    /\ releaseCacheMutex' = Unlock(releaseCacheMutex)
    /\ releasesLog' = [releasesLog EXCEPT
                         !.empties = @ + (IF Len(list) = 0 THEN 1 ELSE 0),
                         !.failed = FALSE]
    /\ call' = [call EXCEPT ![c].pc = "done", ![c].ret = "nil"]
    /\ UNCHANGED <<now, comparisonCache, comparisonCacheMutex, workload, started, compareLog>>

\* mutant: the error path resets the cache
ReleaseCacheClearedOnError(cache, last, n) == [cache |-> NilSlice, last |-> ZeroTime]

\* mutant: the error path records the time of the attempt
ReleaseCacheStampedOnError(cache, last, n) == [cache |-> cache, last |-> n]

\* what the error return of updateReleaseCache leaves in the cache
\* (feature_handler.go:472-474: nothing is written)
ReleaseCacheAfterError(cache, last, n) == [cache |-> cache, last |-> last]

\* updateReleaseCache, feature_handler.go:471-474: GetReleases fails
UpdateFetchErr(c) ==
    /\ UNCHANGED <<modalVars, storeVars, funcVars>>
    /\ call[c].pc = "fetch" /\ call[c].kind = "update"
    /\ releaseCacheMutex.writer = c
    /\ releaseCache' = ReleaseCacheAfterError(releaseCache, lastCacheUpdate, now).cache
    /\ lastCacheUpdate' = ReleaseCacheAfterError(releaseCache, lastCacheUpdate, now).last
    /\ releaseCacheMutex' = Unlock(releaseCacheMutex)
    /\ releasesLog' = [releasesLog EXCEPT !.errs = @ + 1, !.failed = TRUE]
    /\ call' = [call EXCEPT ![c].pc = "done", ![c].ret = "err"]
    /\ UNCHANGED <<now, comparisonCache, comparisonCacheMutex, workload, started, compareLog>>

\* the goroutine c enters getChangelogMessage(base, head)
CallGetChangelogMessage(c, base, head) ==
    /\ UNCHANGED <<modalVars, storeVars, funcVars>>
    /\ call[c].pc \in {"idle", "done"}
    /\ workload = "comparisons"
    /\ started < MaxCalls
    /\ started' = started + 1
    /\ call' = [call EXCEPT ![c] =
                  [IdleCall EXCEPT !.pc = "check1", !.kind = "changelog",
                     !.base = base, !.head = head]]
    /\ UNCHANGED <<now, releaseCache, lastCacheUpdate, releaseCacheMutex,
                   comparisonCache, comparisonCacheMutex, workload,
                   releasesLog, compareLog>>

\* getChangelogMessage, feature_handler.go:329-339: the check under RLock
ChangelogCheck1(c) ==
    /\ UNCHANGED <<modalVars, storeVars, funcVars>>
    /\ call[c].pc = "check1" /\ call[c].kind = "changelog"
    /\ CanRLock(comparisonCacheMutex)
    /\ LET cacheKey == CacheKey(call[c].base, call[c].head) IN
       IF ComparisonFresh(now, comparisonCache, cacheKey)
          THEN call' = [call EXCEPT ![c].pc = "done", ![c].ret = "nil",
                          ![c].msg = comparisonCache[cacheKey].Message,
                          ![c].saw = KeyedEntry(now, comparisonCache, cacheKey)]
          ELSE call' = [call EXCEPT ![c].pc = "lock",
                          ![c].saw = KeyedEntry(now, comparisonCache, cacheKey)]
    /\ UNCHANGED <<now, releaseCache, lastCacheUpdate, releaseCacheMutex,
                   comparisonCache, comparisonCacheMutex, workload, started,
                   releasesLog, compareLog>>

\* getChangelogMessage, feature_handler.go:341-353: Lock, the second check,
\* and the start of the CompareCommits call
ChangelogLock(c) ==
    /\ UNCHANGED <<modalVars, storeVars, funcVars>>
    /\ call[c].pc = "lock" /\ call[c].kind = "changelog"
    /\ CanLock(comparisonCacheMutex, c)
    /\ LET cacheKey == CacheKey(call[c].base, call[c].head) IN
       IF ComparisonRecheck(now, comparisonCache, cacheKey)
          THEN /\ call' = [call EXCEPT ![c].pc = "done", ![c].ret = "nil",
                                       ![c].msg = comparisonCache[cacheKey].Message]
               /\ comparisonCacheMutex' = Unlock(Lock(comparisonCacheMutex, c))
          ELSE /\ call' = [call EXCEPT ![c].pc = "fetch", ![c].fetched = @ + 1]
               /\ comparisonCacheMutex' = Lock(comparisonCacheMutex, c)
    /\ compareLog' = [compareLog EXCEPT !.calls =
                        @ + (IF call'[c].pc = "fetch" THEN 1 ELSE 0)]
    /\ UNCHANGED <<now, releaseCache, lastCacheUpdate, releaseCacheMutex,
                   comparisonCache, workload, started, releasesLog>>

\* getChangelogMessage, feature_handler.go:353-366: CompareCommits returns
\* a comparison; the formatted message is stored with the current time
ChangelogFetchOk(c, comparison) ==
    /\ UNCHANGED <<modalVars, storeVars, funcVars>>
    /\ call[c].pc = "fetch" /\ call[c].kind = "changelog"
    /\ comparisonCacheMutex.writer = c
    /\ LET cacheKey == CacheKey(call[c].base, call[c].head)
           message == formatChangelogMessage(call[c].base, call[c].head, comparison)
       IN /\ comparisonCache' = MapPut(comparisonCache, cacheKey,
                                       [Message |-> message, Timestamp |-> now])
          /\ compareLog' = [compareLog EXCEPT !.failed = @ \ {cacheKey}]
          /\ call' = [call EXCEPT ![c].pc = "done", ![c].ret = "nil",
                                  ![c].msg = message]
    /\ comparisonCacheMutex' = Unlock(comparisonCacheMutex)
    /\ UNCHANGED <<now, releaseCache, lastCacheUpdate, releaseCacheMutex,
                   workload, started, releasesLog>>

\* mutant: a failed fetch empties the comparison cache
ComparisonCacheClearedOnError(cache, key) == EmptyMap

\* what the error return of getChangelogMessage leaves in the cache
\* (feature_handler.go:354-356: nothing is written)
ComparisonCacheAfterError(cache, key) == cache

\* getChangelogMessage, feature_handler.go:353-356: CompareCommits fails
ChangelogFetchErr(c) ==
    /\ UNCHANGED <<modalVars, storeVars, funcVars>>
    /\ call[c].pc = "fetch" /\ call[c].kind = "changelog"
    /\ comparisonCacheMutex.writer = c
    /\ LET cacheKey == CacheKey(call[c].base, call[c].head) IN
       /\ comparisonCache' = ComparisonCacheAfterError(comparisonCache, cacheKey)
       /\ compareLog' = [compareLog EXCEPT !.errs = @ + 1,
                                            !.failed = @ \cup {cacheKey}]
    /\ comparisonCacheMutex' = Unlock(comparisonCacheMutex)
    /\ call' = [call EXCEPT ![c].pc = "done", ![c].ret = "err"]
    /\ UNCHANGED <<now, releaseCache, lastCacheUpdate, releaseCacheMutex,
                   workload, started, releasesLog>>

\* the responses of handleChangelog: the kind of the Discord call and its
\* content
Response(kind, text, base, head, total) ==
    [kind |-> kind, text |-> text, base |-> base, head |-> head, total |-> total]

\* "Please provide both base and head versions.", ephemeral
ValidationMessage ==
    Response("message", "Please provide both base and head versions.",
             << >>, << >>, 0)

\* InteractionResponseDeferredChannelMessageWithSource
DeferredResponse == Response("deferred", "", << >>, << >>, 0)

\* InteractionResponseEdit with the changelog message
ChangelogEdit(message) ==
    Response("edit", "changelog", message.base, message.head, message.total)

\* InteractionResponseEdit with "Failed to compare versions: base...head"
FailedEdit(base, head) ==
    Response("edit", "Failed to compare versions: ", base, head, 0)

\* the option values a /changelog invocation can carry; an option that is
\* missing leaves the empty string (feature_handler.go:289-295)
ChangelogOptions ==
    ComparePairs \cup {<< << >>, Ver2 >>, << Ver1, << >> >>, << << >>, << >> >>}

\* mutant: only an invocation without both options is rejected
OptionsMissingBoth(base, head) == base = << >> /\ head = << >>

\* feature_handler.go:297: base == "" || head == ""
OptionsMissing(base, head) == base = << >> \/ head = << >>

\* handleChangelog has sent the deferred response and getChangelogMessage
\* has returned to it
EditPending(c) ==
    /\ call[c].pc = "done"
    /\ call[c].kind = "changelog"
    /\ call[c].responses = <<DeferredResponse>>

\* handleChangelog, feature_handler.go:282-314: the options are read; without
\* both versions the validation message is sent, otherwise the deferred
\* response is sent and getChangelogMessage is entered
HandleChangelog(c, base, head) ==
    /\ UNCHANGED <<modalVars, storeVars, funcVars>>
    /\ call[c].pc \in {"idle", "done"}
    /\ ~EditPending(c)
    /\ workload = "changelog"
    /\ started < MaxCalls
    /\ started' = started + 1
    /\ call' = [call EXCEPT ![c] =
                  IF OptionsMissing(base, head)
                     THEN [IdleCall EXCEPT !.pc = "done", !.kind = "changelog",
                             !.base = base, !.head = head,
                             !.responses = <<ValidationMessage>>]
                     ELSE [IdleCall EXCEPT !.pc = "check1", !.kind = "changelog",
                             !.base = base, !.head = head,
                             !.responses = <<DeferredResponse>>]]
    /\ UNCHANGED <<now, releaseCache, lastCacheUpdate, releaseCacheMutex,
                   comparisonCache, comparisonCacheMutex, workload,
                   releasesLog, compareLog>>

\* handleChangelog, feature_handler.go:314-325: getChangelogMessage has
\* returned; the deferred response is edited
HandleChangelogEdit(c) ==
    /\ UNCHANGED <<modalVars, storeVars, funcVars>>
    /\ EditPending(c)
    /\ call' = [call EXCEPT ![c].responses =
                  Append(@, IF call[c].ret = "err"
                               THEN FailedEdit(call[c].base, call[c].head)
                               ELSE ChangelogEdit(call[c].msg))]
    /\ UNCHANGED <<now, releaseCache, lastCacheUpdate, releaseCacheMutex,
                   comparisonCache, comparisonCacheMutex, workload, started,
                   releasesLog, compareLog>>

\* ------------------------------------------------------------------------
\* handleChangelogAutocomplete
\* ------------------------------------------------------------------------

\* strings.ToLower on one character of the tag alphabet
LowerChar(ch) ==
    IF ch = "V" THEN "v" ELSE IF ch = "B" THEN "b" ELSE IF ch = "X" THEN "x" ELSE ch

\* strings.ToLower
ToLower(s) == [i \in 1..Len(s) |-> LowerChar(s[i])]

\* strings.Contains(s, substr)
Contains(s, substr) ==
    \E i \in 0..(Len(s) - Len(substr)) : SubSeq(s, i + 1, i + Len(substr)) = substr

\* an option of the autocomplete interaction
Option(focused, value) == [Focused |-> focused, Value |-> value]

\* feature_handler.go:424-430: the lower-cased value of the first focused
\* option, "" when no option is focused
RECURSIVE CurrentInput(_)
CurrentInput(options) ==
    IF Len(options) = 0 THEN << >>
    ELSE IF Head(options).Focused THEN ToLower(Head(options).Value)
    ELSE CurrentInput(Tail(options))

\* the most choices one autocomplete response carries (feature_handler.go:441)
ChoiceLimit == 25

\* mutant: the loop stops one choice late
LimitPassed(choices) == Len(choices) > ChoiceLimit

\* feature_handler.go:441: len(choices) >= 25
LimitReached(choices) == Len(choices) >= ChoiceLimit

\* feature_handler.go:435
\*   currentInput == "" || strings.Contains(strings.ToLower(tagName), currentInput)
Matches(tagName, currentInput) ==
    currentInput = << >> \/ Contains(ToLower(tagName), currentInput)

\* feature_handler.go:432-444: the loop over releaseCache that collects the
\* choices (a choice's name and value are both the tag name)
RECURSIVE CollectChoices(_, _, _)
CollectChoices(releases, currentInput, choices) ==
    IF Len(releases) = 0 THEN choices
    ELSE LET tagName == Head(releases)
             appended == IF Matches(tagName, currentInput)
                            THEN Append(choices, tagName) ELSE choices
         IN IF LimitReached(appended) THEN appended
            ELSE CollectChoices(Tail(releases), currentInput, appended)

\* the choices of the response for a cache content and the options
AutocompleteChoices(releases, options) ==
    CollectChoices(releases, CurrentInput(options), << >>)

\* InteractionApplicationCommandAutocompleteResult with the choices
AutocompleteResult(choices) == [kind |-> "autocomplete", choices |-> choices]

\* the options the autocomplete interactions of the cache runs carry
AutocompleteOptions ==
    {<< >>, <<Option(TRUE, <<"V">>)>>, <<Option(TRUE, <<"2">>)>>}

\* mutant: the handler returns when updateReleaseCache has failed
ChoicesPendingOnSuccess(c) ==
    /\ call[c].pc = "done"
    /\ call[c].handler = "autocomplete"
    /\ call[c].ret = "nil"
    /\ call[c].responses = << >>

\* updateReleaseCache has returned to handleChangelogAutocomplete, which has
\* not responded yet
ChoicesPending(c) ==
    /\ call[c].pc = "done"
    /\ call[c].handler = "autocomplete"
    /\ call[c].responses = << >>

\* handleChangelogAutocomplete, feature_handler.go:414-418: the handler
\* enters updateReleaseCache
HandleChangelogAutocomplete(c, options) ==
    /\ UNCHANGED <<modalVars, storeVars, funcVars>>
    /\ call[c].pc \in {"idle", "done"}
    /\ ~ChoicesPending(c)
    /\ workload = "autocomplete"
    /\ started < MaxCalls
    /\ started' = started + 1
    /\ call' = [call EXCEPT ![c] =
                  [IdleCall EXCEPT !.pc = "check1", !.kind = "update",
                     !.handler = "autocomplete", !.options = options]]
    /\ UNCHANGED <<now, releaseCache, lastCacheUpdate, releaseCacheMutex,
                   comparisonCache, comparisonCacheMutex, workload,
                   releasesLog, compareLog>>

\* handleChangelogAutocomplete, feature_handler.go:416-421: whatever
\* updateReleaseCache returned (its error is only logged), the read lock is
\* taken; the deferred RUnlock runs when the handler returns
AutocompleteRLock(c) ==
    /\ UNCHANGED <<modalVars, storeVars, funcVars>>
    /\ ChoicesPending(c)
    /\ CanRLock(releaseCacheMutex)
    /\ releaseCacheMutex' = RLock(releaseCacheMutex, c)
    /\ call' = [call EXCEPT ![c].pc = "respond"]
    /\ UNCHANGED <<now, releaseCache, lastCacheUpdate,
                   comparisonCache, comparisonCacheMutex, workload, started,
                   releasesLog, compareLog>>

\* handleChangelogAutocomplete, feature_handler.go:423-451: the choices are
\* collected from the cache and InteractionRespond is called with the read
\* lock held; when it has returned the handler returns and RUnlock runs
AutocompleteRespond(c) ==
    /\ UNCHANGED <<modalVars, storeVars, funcVars>>
    /\ call[c].pc = "respond"
    /\ c \in releaseCacheMutex.readers
    /\ call' = [call EXCEPT ![c].pc = "done",
                            ![c].responses =
                  <<AutocompleteResult(
                       AutocompleteChoices(releaseCache.items, call[c].options))>>]
    /\ releaseCacheMutex' = RUnlock(releaseCacheMutex, c)
    /\ UNCHANGED <<now, releaseCache, lastCacheUpdate,
                   comparisonCache, comparisonCacheMutex, workload, started,
                   releasesLog, compareLog>>

\* the clock advances by one tick
Tick ==
    /\ UNCHANGED <<modalVars, storeVars, funcVars>>
    /\ now < MaxTime
    /\ now' = now + 1
    /\ UNCHANGED <<releaseCache, lastCacheUpdate, releaseCacheMutex,
                   comparisonCache, comparisonCacheMutex, call, workload, started,
                   releasesLog, compareLog>>

\* ------------------------------------------------------------------------
\* Strings of the identifier grammar
\* ------------------------------------------------------------------------

Underscore == "_"

ModalTag == <<"m", "o", "d", "a", "l">>

ContinueTag == <<"c", "o", "n", "t", "i", "n", "u", "e">>

Bug == <<"b", "u", "g">>

Feature == <<"f", "e", "a", "t", "u", "r", "e">>

Commands == {Bug, Feature}

\* channel IDs: one with a modal configuration, one without
Channel7 == <<"7">>

Channel8 == <<"8">>

Channels == {Channel7, Channel8}

\* user IDs
User1 == <<"1">>

User2 == <<"2">>

Users == {User1, User2}

\* i.Member.User.Username
Username(userID) == IF userID = User1 THEN "alice" ELSE "bob"

\* strings.Split(s, sep) for a one-character separator
RECURSIVE Split(_, _)
Split(s, sep) ==
    IF \E i \in 1..Len(s) : s[i] = sep
       THEN LET i == CHOOSE k \in 1..Len(s) :
                        s[k] = sep /\ \A j \in 1..(k - 1) : s[j] # sep
            IN <<SubSeq(s, 1, i - 1)>> \o Split(SubSeq(s, i + 1, Len(s)), sep)
       ELSE <<s>>

\* strings.Join(parts, sep)
RECURSIVE Join(_, _)
Join(parts, sep) ==
    IF Len(parts) = 0 THEN << >>
    ELSE IF Len(parts) = 1 THEN parts[1]
    ELSE parts[1] \o <<sep>> \o Join(Tail(parts), sep)

\* strings.HasPrefix(s, prefix)
HasPrefix(s, prefix) ==
    Len(s) >= Len(prefix) /\ SubSeq(s, 1, Len(prefix)) = prefix

\* strings.TrimPrefix(s, prefix)
TrimPrefix(s, prefix) ==
    IF HasPrefix(s, prefix) THEN SubSeq(s, Len(prefix) + 1, Len(s)) ELSE s

\* fmt.Sprintf("%s_%s_%s", command, channelID, userID)
StateKey(command, channelID, userID) ==
    command \o <<Underscore>> \o channelID \o <<Underscore>> \o userID

\* fmt.Sprintf("continue_%s", stateKey)
ContinueButtonID(stateKey) == ContinueTag \o <<Underscore>> \o stateKey

\* fmt.Sprintf("modal_continue_%s", stateKey)
ContinueModalID(stateKey) ==
    ModalTag \o <<Underscore>> \o ContinueTag \o <<Underscore>> \o stateKey

\* fmt.Sprintf("modal_%s_%s", command, channelID)
FirstModalID(command, channelID) ==
    ModalTag \o <<Underscore>> \o command \o <<Underscore>> \o channelID

\* ------------------------------------------------------------------------
\* Modal configuration (config.FieldConfig lists)
\* ------------------------------------------------------------------------

\* custom_id of the i-th configured field
FieldIDs == <<"bug_title", "bug_description", "f3", "f4", "f5", "f6",
              "f7", "f8", "f9", "f10", "f11">>

\* labels, pairwise distinct
LabelNames == <<"Title", "Description", "L3", "L4", "L5", "L6",
                "L7", "L8", "L9", "L10", "L11">>

\* n fields with pairwise distinct labels
DistinctFields(n) ==
    [i \in 1..n |-> [CustomID |-> FieldIDs[i], Label |-> LabelNames[i]]]

\* the custom_ids of the fields after the template was rewritten
NewIDs == <<"summary", "details", "g3", "g4", "g5", "g6">>

\* n fields with the labels of DistinctFields(n) under other custom_ids
RenamedFields(n) ==
    [i \in 1..n |-> [CustomID |-> NewIDs[i], Label |-> LabelNames[i]]]

\* n fields where field j carries the label of field i
FieldsWithSameLabel(n, i, j) ==
    [k \in 1..n |-> [CustomID |-> FieldIDs[k],
                     Label |-> IF k = j THEN LabelNames[i] ELSE LabelNames[k]]]

\* the field lists a command may be configured with
FieldLists ==
    {DistinctFields(3), DistinctFields(6), DistinctFields(7), DistinctFields(11),
     FieldsWithSameLabel(6, 1, 2), FieldsWithSameLabel(7, 1, 6)}

\* the target repository configured for a command
ConfigRepo(command) == IF command = Bug THEN "android" ELSE "web"

\* the GithubOwner / GithubRepo globals set by InitializeGithub
GithubOwner == "meshtastic"

GithubRepo == "firmware"

\* the configurations LoadModals may have loaded: per command the fields,
\* the title and the channels; only Channel7 is configured, the feature form
\* is a single page of configured fields, and the fields of the bug form
\* come from the issue template behind its template URL
Configs ==
    {[cmd \in Commands |->
         [Fields |-> IF cmd = Bug THEN fl ELSE DistinctFields(3),
          Title |-> IF cmd = Bug THEN "Bug Report" ELSE "Feature Request",
          ChannelIDs |-> {Channel7},
          TemplateURL |-> (cmd = Bug),
          Owner |-> GithubOwner,
          Repo |-> ConfigRepo(cmd)]] : fl \in FieldLists}

\* config.GetAllFieldsForModal(command, channelID): the error case
NotConfigured(cfg, command, channelID) ==
    command \notin DOMAIN cfg \/ channelID \notin cfg[command].ChannelIDs

\* config.GetModel, modal.go:305-310: the first page holds at most 5 fields
FirstPage(fields) ==
    IF Len(fields) > 5 THEN SubSeq(fields, 1, 5) ELSE fields

\* mutant: the next chunk starts one field late
NextChunkSkipsOne(fields, currentIndex) ==
    LET endIndex == IF currentIndex + 5 > Len(fields) THEN Len(fields)
                    ELSE currentIndex + 5
    IN SubSeq(fields, currentIndex + 2, endIndex)

\* what the runtime leaves of a goroutine whose slice expression is out of
\* range ("panic: runtime error: slice bounds out of range")
SliceBoundsOutOfRange == <<"panic">>

\* the slice expression AllFields[currentIndex:endIndex] of
\* modal_handler.go:305 is within bounds (low <= high <= len)
SliceInRange(fields, currentIndex) == currentIndex <= Len(fields)

\* handleButtonClick, modal_handler.go:300-305: the next chunk
\*   AllFields[currentIndex : min(currentIndex+5, len(AllFields))]
\* With more collected values than fields the slice expression panics.
NextChunk(fields, currentIndex) ==
    LET endIndex == IF currentIndex + 5 > Len(fields) THEN Len(fields)
                    ELSE currentIndex + 5
    IN IF SliceInRange(fields, currentIndex)
          THEN SubSeq(fields, currentIndex + 1, endIndex)
          ELSE SliceBoundsOutOfRange

\* the custom_ids of a page, in order
PageIDs(page) == [i \in 1..Len(page) |-> page[i].CustomID]

\* ------------------------------------------------------------------------
\* Sessions
\* ------------------------------------------------------------------------

\* the labels attached by the command handlers
CommandLabels(command) ==
    IF command = Bug THEN <<"from-discord", "bug">>
    ELSE <<"from-discord", "enhancement">>

\* &ModalState{...} of handleBug / handleFeature
NewModalState(cfg, command, channelID) ==
    [Title |-> cfg[command].Title,
     AllFields |-> cfg[command].Fields,
     SubmittedValues |-> EmptyMap,
     Labels |-> CommandLabels(command),
     Command |-> command,
     ChannelID |-> channelID,
     Owner |-> cfg[command].Owner,
     Repo |-> cfg[command].Repo]

\* mutant: an existing session is kept when the command is invoked again
StoreCreateKeepsExisting(m, k, st) ==
    IF k \in DOMAIN m THEN m ELSE MapPut(m, k, st)

\* mutant: a new session takes over the values collected under the key
StoreCreateKeepsValues(m, k, st) ==
    IF k \in DOMAIN m
       THEN MapPut(m, k, [st EXCEPT !.SubmittedValues = m[k].SubmittedValues])
       ELSE MapPut(m, k, st)

\* modalStates[stateKey] = &ModalState{...}
StoreCreate(m, k, st) == MapPut(m, k, st)

\* mutant: the delete removes nothing
StoreDeleteNothing(m, k) == m

\* delete(modalStates, stateKey)
StoreDelete(m, k) == MapDelete(m, k)

\* modal_handler.go:45-51 and :198-204: the label of the field with this
\* custom_id, or the custom_id itself when no field has it
FieldLabel(allFields, customID) ==
    IF \E i \in 1..Len(allFields) : allFields[i].CustomID = customID
       THEN allFields[CHOOSE i \in 1..Len(allFields) :
                         /\ allFields[i].CustomID = customID
                         /\ \A j \in 1..(i - 1) : allFields[j].CustomID # customID].Label
       ELSE customID

\* modal_handler.go:40-56 and :190-210: the submitted text inputs are
\* written into SubmittedValues under their labels, in order
RECURSIVE MergeSubmitted(_, _, _)
MergeSubmitted(values, allFields, inputs) ==
    IF Len(inputs) = 0 THEN values
    ELSE MergeSubmitted(
            MapPut(values, FieldLabel(allFields, Head(inputs).CustomID),
                   Head(inputs).Value),
            allFields, Tail(inputs))

\* mutant: a session with as many values as fields is still offered a page
MoreFieldsInclusive(currentIndex, n) == currentIndex <= n

\* modal_handler.go:61 and :215: currentIndex < len(state.AllFields)
MoreFields(currentIndex, n) == currentIndex < n

\* modal_handler.go:62-63 and :216-217
TotalParts(n) == (n + 4) \div 5

CurrentPart(currentIndex) == (currentIndex + 4) \div 5

\* buildIssueBody: one "### label\nvalue" block per entry of the map (in
\* the map's iteration order, which Go leaves unspecified: the blocks are
\* kept as a set) and the footer with username and user ID
buildIssueBody(submittedValues, username, userID) ==
    [blocks |-> {<<l, submittedValues[l]>> : l \in DOMAIN submittedValues},
     footer |-> <<username, userID>>]

\* extractModalFields: custom_id -> value
extractModalFields(inputs) ==
    [id \in {inputs[i].CustomID : i \in 1..Len(inputs)} |->
        inputs[CHOOSE i \in 1..Len(inputs) :
                  /\ inputs[i].CustomID = id
                  /\ \A j \in (i + 1)..Len(inputs) : inputs[j].CustomID # id].Value]

\* fields[name], "" when absent
FieldOrEmpty(fields, name) ==
    IF name \in DOMAIN fields THEN fields[name] ELSE ""

\* github.FormatIssueBody(username, userID, description) of the legacy path
FormatIssueBody(username, userID, description) ==
    [blocks |-> {<<"description", description>>},
     footer |-> <<username, userID>>]

\* the text inputs of a submitted form: the user typed text into every field
SubmittedInputs(form, text) ==
    [i \in 1..Len(form.Components) |->
        [CustomID |-> form.Components[i], Value |-> text]]

\* the texts users type
Texts == {"x", "y"}

\* form identifiers that no modal of the bot carries: one segment, and
\* two segments with "continue" as the second
MalformedIDs == {ModalTag, ModalTag \o <<Underscore>> \o ContinueTag}

\* modal submissions with such identifiers
MalformedForms ==
    {[CustomID |-> id, Components |-> <<"bug_title">>,
      user |-> User1, channel |-> Channel7] : id \in MalformedIDs}

\* the forms a modal submission can carry
Submittable == forms \cup MalformedForms

\* ------------------------------------------------------------------------
\* Handler runs
\* ------------------------------------------------------------------------

Runs == 1..NumRuns

NoResponse == [kind |-> "none", part |-> 0, total |-> 0, button |-> << >>]

\* InteractionRespond with a plain ephemeral message
Message(kind) == [NoResponse EXCEPT !.kind = kind]

\* mutant: the not-found branch answers with the failure message
SessionExpiredAsFailure == Message("failed")

\* "Session expired. Please start over."
SessionExpired == Message("expired")

\* "Part %d of %d complete. Click 'Continue' to proceed." with the button
PartComplete(currentPart, totalParts, stateKey) ==
    [kind |-> "part", part |-> currentPart, total |-> totalParts,
     button |-> ContinueButtonID(stateKey)]

NoBody == [blocks |-> {}, footer |-> <<"", << >> >>]

NoIssue == [owner |-> "", repo |-> "", title |-> "", body |-> NoBody,
            labels |-> << >>]

\* the arguments of GithubClient.CreateIssue
Issue(owner, repo, title, body, labels) ==
    [owner |-> owner, repo |-> repo, title |-> title, body |-> body,
     labels |-> labels]

IdleRun == [pc |-> "idle", path |-> "none", key |-> << >>, user |-> << >>,
            issue |-> NoIssue, ok |-> TRUE]

NoRun == [handler |-> "none", key |-> << >>, user |-> << >>,
          response |-> NoResponse, looked |-> FALSE, found |-> FALSE,
          merged |-> {}, called |-> FALSE, issue |-> NoIssue,
          customID |-> << >>, channel |-> << >>, page |-> << >>,
          listed |-> FALSE]

\* the entry of a key in the session log ("none" before the first write)
LogOf(log, key) ==
    IF key \in DOMAIN log THEN log[key]
    ELSE [op |-> "none", ids |-> {}, failed |-> FALSE, calls |-> 0]

\* the process runs: no goroutine has panicked
Running == ~crashed

\* a command run that waits for GetModel
PendingCommand(command, channelID, userID, stored) ==
    [command |-> command, channel |-> channelID, user |-> userID,
     key |-> StateKey(command, channelID, userID), stored |-> stored]

\* handleBug / handleFeature up to the call of GetModel (bug_handler.go:12-41,
\* feature_handler.go:12-41).  GetAllFieldsForModal fetches the template
\* over HTTP when a template URL is configured (modal.go:238-243): fetched1
\* tells whether that fetch succeeds.  With more than 5 fields the session
\* is stored before GetModel is called.
HandleCommand(command, channelID, userID, fetched1) ==
    /\ Running
    /\ interactions < MaxInteractions
    /\ interactions' = interactions + 1
    /\ ~fetched1 =>
          /\ ~NotConfigured(modalConfig, command, channelID)
          /\ modalConfig[command].TemplateURL
    /\ IF NotConfigured(modalConfig, command, channelID) \/ ~fetched1
          THEN /\ lastRun' = [NoRun EXCEPT !.handler = "command", !.user = userID,
                                !.key = StateKey(command, channelID, userID),
                                !.response = Message("not_configured")]
               /\ UNCHANGED <<modalStates, sessionLog, pending>>
          ELSE LET allFields == modalConfig[command].Fields
                   stateKey == StateKey(command, channelID, userID)
                   run == PendingCommand(command, channelID, userID,
                                         Len(allFields) > 5)
               IN /\ run \notin pending
                  /\ Cardinality(pending) < NumRuns
                  /\ pending' = pending \cup {run}
                  /\ IF Len(allFields) > 5
                        THEN /\ modalStates' =
                                  StoreCreate(modalStates, stateKey,
                                     NewModalState(modalConfig, command, channelID))
                             /\ sessionLog' =
                                  MapPut(sessionLog, stateKey,
                                     [LogOf(sessionLog, stateKey) EXCEPT
                                        !.op = "create", !.ids = {},
                                        !.calls = 0])
                        ELSE UNCHANGED <<modalStates, sessionLog>>
                  /\ lastRun' = [NoRun EXCEPT !.handler = "command",
                                   !.user = userID, !.key = stateKey,
                                   !.listed = TRUE]
    /\ UNCHANGED <<modalConfig, edits, forms, buttons, runs, issueCalls>>
    /\ UNCHANGED <<cacheVars, storeVars, funcVars>>

\* handleBug / handleFeature from the return of GetModel (bug_handler.go:41-62,
\* feature_handler.go:41-62).  GetModel fetches the template again
\* (modal.go:289-294): fetched2 tells whether that fetch succeeds.  The
\* modal shows the first page of the fields GetModel obtained.
ShowModal(run, fetched2) ==
    /\ Running
    /\ run \in pending
    /\ ~fetched2 => modalConfig[run.command].TemplateURL
    /\ pending' = pending \ {run}
    /\ IF fetched2
          THEN LET fields == modalConfig[run.command].Fields IN
               /\ forms' = forms \cup
                     {[CustomID |-> FirstModalID(run.command, run.channel),
                       Components |-> PageIDs(FirstPage(fields)),
                       user |-> run.user, channel |-> run.channel]}
               /\ lastRun' = [NoRun EXCEPT !.handler = "show",
                                !.user = run.user, !.key = run.key,
                                !.response = Message("modal"),
                                !.page = PageIDs(FirstPage(fields)),
                                !.listed = TRUE]
          ELSE /\ lastRun' = [NoRun EXCEPT !.handler = "show",
                                !.user = run.user, !.key = run.key,
                                !.response = Message("not_configured"),
                                !.listed = TRUE]
               /\ UNCHANGED forms
    /\ UNCHANGED <<modalConfig, edits, modalStates, sessionLog, buttons, runs, issueCalls,
                   interactions>>
    /\ UNCHANGED <<cacheVars, storeVars, funcVars>>

\* mutant: a first-page submission is never merged into a session
RouteIgnoresStore(customID, channelID, userID, store) ==
    LET parts == Split(customID, Underscore) IN
    IF Len(parts) < 2 THEN [to |-> "drop", key |-> << >>, command |-> << >>]
    ELSE IF parts[2] = ContinueTag /\ Len(parts) >= 3
       THEN [to |-> "continuation",
             key |-> Join(SubSeq(parts, 3, Len(parts)), Underscore),
             command |-> << >>]
    ELSE [to |-> "legacy", key |-> StateKey(parts[2], channelID, userID),
          command |-> parts[2]]

\* mutant: the continuation key is the third segment alone
RouteThirdSegment(customID, channelID, userID, store) ==
    LET parts == Split(customID, Underscore) IN
    IF Len(parts) < 2 THEN [to |-> "drop", key |-> << >>, command |-> << >>]
    ELSE IF parts[2] = ContinueTag /\ Len(parts) >= 3
       THEN [to |-> "continuation", key |-> parts[3], command |-> << >>]
    ELSE LET stateKey == StateKey(parts[2], channelID, userID) IN
         IF stateKey \in DOMAIN store
            THEN [to |-> "multipart", key |-> stateKey, command |-> parts[2]]
            ELSE [to |-> "legacy", key |-> stateKey, command |-> parts[2]]

\* the route handleModalSubmit takes for a form identifier
\* (modal_handler.go:18-37)
Route(customID, channelID, userID, store) ==
    LET parts == Split(customID, Underscore) IN
    IF Len(parts) < 2 THEN [to |-> "drop", key |-> << >>, command |-> << >>]
    ELSE IF parts[2] = ContinueTag /\ Len(parts) >= 3
       THEN [to |-> "continuation",
             key |-> Join(SubSeq(parts, 3, Len(parts)), Underscore),
             command |-> << >>]
    ELSE LET stateKey == StateKey(parts[2], channelID, userID) IN
         IF stateKey \in DOMAIN store
            THEN [to |-> "multipart", key |-> stateKey, command |-> parts[2]]
            ELSE [to |-> "legacy", key |-> stateKey, command |-> parts[2]]

\* the lowest free run slot
FreeRun(r) ==
    /\ runs[r].pc = "idle"
    /\ \A q \in DOMAIN runs : q < r => runs[q].pc # "idle"

\* modal_handler.go:37-93 and :188-248: merge the submitted values into the
\* session; then either answer with the Continue button or call CreateIssue
\* (the call occupies a run slot until the handler has returned)
MergeAndDecide(handler, stateKey, form, text) ==
    \E state \in {modalStates[stateKey]} :
    \E inputs \in {SubmittedInputs(form, text)} :
    \E values \in {MergeSubmitted(state.SubmittedValues, state.AllFields, inputs)} :
    \E currentIndex \in {Cardinality(DOMAIN values)} :
    LET ids == {inputs[i].CustomID : i \in 1..Len(inputs)}
        run == [NoRun EXCEPT !.handler = handler, !.key = stateKey,
                  !.user = form.user, !.looked = TRUE, !.found = TRUE,
                  !.merged = ids, !.customID = form.CustomID,
                  !.channel = form.channel]
    IN /\ modalStates' = [modalStates EXCEPT ![stateKey].SubmittedValues = values]
       /\ sessionLog' = MapPut(sessionLog, stateKey,
                           [LogOf(sessionLog, stateKey) EXCEPT
                              !.ids = @ \cup ids,
                              !.calls = IF MoreFields(currentIndex, Len(state.AllFields))
                                           THEN @ ELSE @ + 1])
       /\ IF MoreFields(currentIndex, Len(state.AllFields))
             THEN /\ lastRun' = [run EXCEPT !.response =
                        PartComplete(CurrentPart(currentIndex),
                                     TotalParts(Len(state.AllFields)), stateKey)]
                  /\ buttons' = buttons \cup
                        {[CustomID |-> ContinueButtonID(stateKey),
                          user |-> form.user, channel |-> form.channel]}
                  /\ UNCHANGED <<runs, issueCalls>>
             ELSE \E issue \in {Issue(GithubOwner, GithubRepo, state.Title,
                                  buildIssueBody(values, Username(form.user), form.user),
                                  state.Labels)} :
                  \E r \in DOMAIN runs :
                     /\ FreeRun(r)
                     /\ runs' = [runs EXCEPT ![r] =
                           [pc |-> "creating", path |-> handler, key |-> stateKey,
                            user |-> form.user, issue |-> issue, ok |-> TRUE]]
                     /\ issueCalls' = issueCalls + 1
                     /\ lastRun' = [run EXCEPT !.called = TRUE, !.issue = issue]
                     /\ UNCHANGED buttons

\* mutant: a malformed submission is answered with a message
DroppedWithMessage == Message("failed")

\* modal_handler.go:19-22: log.Printf and return, no InteractionRespond
Dropped == NoResponse

\* handleModalSubmit with an identifier of fewer than 2 segments
\* (modal_handler.go:18-22)
ModalSubmitDropped(form) ==
    /\ Running
    /\ interactions < MaxInteractions
    /\ form \in Submittable
    /\ Route(form.CustomID, form.channel, form.user, modalStates).to = "drop"
    /\ lastRun' = [NoRun EXCEPT !.handler = "drop", !.user = form.user,
                     !.customID = form.CustomID, !.channel = form.channel,
                     !.response = Dropped]
    /\ interactions' = interactions + 1
    /\ UNCHANGED <<modalConfig, edits, modalStates, sessionLog, forms, buttons, runs,
                   issueCalls>>
    /\ UNCHANGED <<pending, cacheVars, storeVars, funcVars>>

\* handleModalSubmit, multi-part path (modal_handler.go:30-93)
ModalSubmitMultiPart(form, text) ==
    /\ Running
    /\ interactions < MaxInteractions
    /\ form \in Submittable
    /\ \E route \in {Route(form.CustomID, form.channel, form.user, modalStates)} :
       /\ route.to = "multipart"
       /\ MergeAndDecide("submit", route.key, form, text)
    /\ interactions' = interactions + 1
    /\ UNCHANGED <<modalConfig, edits, forms>>
    /\ UNCHANGED <<pending, cacheVars, storeVars, funcVars>>

\* handleModalSubmit -> handleModalContinuation (modal_handler.go:25-28,
\* 174-248)
ModalSubmitContinuation(form, text) ==
    /\ Running
    /\ interactions < MaxInteractions
    /\ form \in Submittable
    /\ \E route \in {Route(form.CustomID, form.channel, form.user, modalStates)} :
       /\ route.to = "continuation"
       /\ IF route.key \notin DOMAIN modalStates
             THEN /\ lastRun' = [NoRun EXCEPT !.handler = "continuation",
                                   !.key = route.key, !.user = form.user,
                                   !.looked = TRUE, !.found = FALSE,
                                   !.response = SessionExpired,
                                   !.customID = form.CustomID,
                                   !.channel = form.channel]
                  /\ UNCHANGED <<modalStates, sessionLog, buttons, runs, issueCalls>>
             ELSE MergeAndDecide("continuation", route.key, form, text)
    /\ interactions' = interactions + 1
    /\ UNCHANGED <<modalConfig, edits, forms>>
    /\ UNCHANGED <<pending, cacheVars, storeVars, funcVars>>

\* handleModalSubmit, single-page path (modal_handler.go:121-151): the issue
\* is built from the submitted fields and CreateIssue is called
ModalSubmitLegacy(form, text) ==
    /\ Running
    /\ interactions < MaxInteractions
    /\ form \in Submittable
    /\ \E route \in {Route(form.CustomID, form.channel, form.user, modalStates)} :
       route.to = "legacy" /\
       LET fields == extractModalFields(SubmittedInputs(form, text))
           labels == IF route.command = Bug THEN <<"from-discord", "bug">>
                     ELSE IF route.command = Feature
                        THEN <<"from-discord", "enhancement">>
                     ELSE <<"from-discord">>
           title == IF FieldOrEmpty(fields, "bug_title") = ""
                       THEN FieldOrEmpty(fields, "feature_title")
                       ELSE FieldOrEmpty(fields, "bug_title")
           description == IF FieldOrEmpty(fields, "bug_description") = ""
                             THEN FieldOrEmpty(fields, "feature_description")
                             ELSE FieldOrEmpty(fields, "bug_description")
           issue == Issue(GithubOwner, GithubRepo, title,
                          FormatIssueBody(Username(form.user), form.user, description),
                          labels)
       IN /\ \E r \in DOMAIN runs :
                /\ FreeRun(r)
                /\ runs' = [runs EXCEPT ![r] =
                      [pc |-> "creating", path |-> "legacy", key |-> route.key,
                       user |-> form.user, issue |-> issue, ok |-> TRUE]]
          /\ lastRun' = [NoRun EXCEPT !.handler = "legacy", !.key = route.key,
                           !.user = form.user, !.looked = TRUE, !.found = FALSE,
                           !.called = TRUE, !.issue = issue,
                           !.customID = form.CustomID,
                           !.channel = form.channel]
    /\ issueCalls' = issueCalls + 1
    /\ interactions' = interactions + 1
    /\ UNCHANGED <<modalConfig, edits, modalStates, sessionLog, forms, buttons>>
    /\ UNCHANGED <<pending, cacheVars, storeVars, funcVars>>

\* CreateIssue returns to the handler run r and the answer is sent with
\* InteractionRespond (modal_handler.go:93-102, :107-115, :151-170, :248-257,
\* :262-275).  The single-page path then returns; on the multi-part paths
\* the delete of the session is still to come.
CreateIssueReturns(r, ok) ==
    /\ Running
    /\ runs[r].pc = "creating"
    /\ LET run == runs[r] IN
       /\ lastRun' = [NoRun EXCEPT !.handler = "createIssue", !.key = run.key,
                        !.user = run.user, !.issue = run.issue,
                        !.response = IF ok THEN Message("created")
                                     ELSE Message("failed")]
       /\ runs' = [runs EXCEPT ![r] =
                     IF run.path \in {"submit", "continuation"}
                        THEN [run EXCEPT !.pc = "answered", !.ok = ok]
                        ELSE IdleRun]
    /\ UNCHANGED <<modalConfig, edits, modalStates, sessionLog, forms, buttons, issueCalls,
                   interactions>>
    /\ UNCHANGED <<pending, cacheVars, storeVars, funcVars>>

\* InteractionRespond has returned to the multi-part run r:
\* delete(modalStates, stateKey) and return (modal_handler.go:103-104,
\* :117-118, :258-259, :277)
DeleteSession(r) ==
    /\ Running
    /\ runs[r].pc = "answered"
    /\ LET run == runs[r] IN
       /\ lastRun' = [NoRun EXCEPT !.handler = "delete", !.key = run.key,
                        !.user = run.user, !.issue = run.issue]
       /\ modalStates' = StoreDelete(modalStates, run.key)
       /\ sessionLog' = MapPut(sessionLog, run.key,
             [LogOf(sessionLog, run.key) EXCEPT
                !.op = "delete", !.ids = {},
                !.failed = (@ \/ ~run.ok), !.calls = 0])
    /\ runs' = [runs EXCEPT ![r] = IdleRun]
    /\ UNCHANGED <<modalConfig, edits, forms, buttons, issueCalls, interactions>>
    /\ UNCHANGED <<pending, cacheVars, storeVars, funcVars>>

\* handleButtonClick (modal_handler.go:280-340)
HandleButtonClick(button) ==
    /\ Running
    /\ interactions < MaxInteractions
    /\ button \in buttons
    /\ HasPrefix(button.CustomID, ContinueTag \o <<Underscore>>)
    /\ LET stateKey == TrimPrefix(button.CustomID, ContinueTag \o <<Underscore>>) IN
       IF stateKey \notin DOMAIN modalStates
          THEN /\ lastRun' = [NoRun EXCEPT !.handler = "click", !.key = stateKey,
                                !.user = button.user, !.looked = TRUE,
                                !.found = FALSE, !.response = SessionExpired]
               /\ UNCHANGED <<forms, crashed>>
          ELSE LET state == modalStates[stateKey]
                   currentIndex == Cardinality(DOMAIN state.SubmittedValues)
                   nextChunk == NextChunk(state.AllFields, currentIndex)
               IN IF SliceInRange(state.AllFields, currentIndex)
                     THEN /\ forms' = forms \cup
                                {[CustomID |-> ContinueModalID(stateKey),
                                  Components |-> PageIDs(nextChunk),
                                  user |-> button.user, channel |-> button.channel]}
                          /\ lastRun' = [NoRun EXCEPT !.handler = "click",
                                           !.key = stateKey,
                                           !.user = button.user, !.looked = TRUE,
                                           !.found = TRUE,
                                           !.response = Message("modal"),
                                           !.page = PageIDs(nextChunk)]
                          /\ UNCHANGED crashed
                     ELSE /\ lastRun' = [NoRun EXCEPT !.handler = "click",
                                           !.key = stateKey,
                                           !.user = button.user, !.looked = TRUE,
                                           !.found = TRUE,
                                           !.page = nextChunk]
                          /\ crashed' = TRUE
                          /\ UNCHANGED forms
    /\ interactions' = interactions + 1
    /\ UNCHANGED <<modalConfig, edits, modalStates, sessionLog, buttons, runs, issueCalls>>
    /\ UNCHANGED <<pending, cacheVars, access, funcVars>>

\* the modal part before the first interaction (interaction.go:34)
IdleModal ==
    /\ edits = 0
    /\ modalStates = EmptyMap
    /\ sessionLog = EmptyMap
    /\ forms = {}
    /\ buttons = {}
    /\ runs = [r \in Runs |-> IdleRun]
    /\ pending = {}
    /\ lastRun = NoRun
    /\ issueCalls = 0
    /\ interactions = 0

\* the caches before the first call (feature_handler.go:262-280)
IdleCache ==
    /\ now = 0
    /\ releaseCache = NilSlice
    /\ lastCacheUpdate = ZeroTime
    /\ releaseCacheMutex = FreeMutex
    /\ comparisonCache = EmptyMap
    /\ comparisonCacheMutex = FreeMutex
    /\ call = [c \in Callers |-> IdleCall]
    /\ started = 0
    /\ releasesLog = [calls |-> 0, errs |-> 0, empties |-> 0, failed |-> FALSE]
    /\ compareLog = [calls |-> 0, errs |-> 0, failed |-> {}]

\* the goroutines handling interactions
Goroutines == 1..NumGoroutines

\* a goroutine outside the session store map
IdleAccess ==
    [pc |-> "idle", handler |-> "none", key |-> << >>, user |-> << >>, obj |-> 0,
     page |-> << >>, held |-> << >>, count |-> 0]

\* no goroutine is in the store and the process runs
IdleStore ==
    /\ access = [g \in Goroutines |-> IdleAccess]
    /\ crashed = FALSE

\* no autocomplete interaction is being answered outside the cache runs
IdleChoices ==
    /\ cachedTags = << >>
    /\ givenOptions = << >>
    /\ sentChoices = << >>
    /\ responded = FALSE

\* no identifier is being parsed outside the modal runs
NoKeys == [button |-> <<"pending">>, form |-> <<"pending">>]

IdleKeys ==
    /\ issued = << >>
    /\ recovered = NoKeys

\* no repository was looked up (the nil *github.Repository)
NoRepository == [full_name |-> << >>, html_url |-> << >>]

\* a goroutine that runs no handleRepo
IdleLookup == [pc |-> "idle", repo |-> "", cacheKey |-> << >>, repository |-> NoRepository,
               err |-> FALSE, response |-> "none"]

\* NewLiveGitHubClient: an empty repository cache, and no lookup running
IdleRepo ==
    /\ repoCache = EmptyMap
    /\ lookup = [c \in Callers |-> IdleLookup]
    /\ repoLog = EmptyMap
    /\ repoStarted = 0

\* no placeholder is being truncated
IdleFunc ==
    /\ placeholder = << >>
    /\ truncated = << >>
    /\ applied = 0
    /\ IdleChoices
    /\ IdleKeys
    /\ IdleRepo

\* the bot after start-up, with one of the modal configurations loaded
InitModal ==
    /\ modalConfig \in Configs
    /\ IdleModal
    /\ IdleCache
    /\ workload = "releases"
    /\ IdleStore
    /\ IdleFunc

\* the versions of the issue template of the bug form: a single page, two
\* pages with and without a repeated label, and two pages whose fields have
\* been given other ids
TemplateVersions ==
    {DistinctFields(3), DistinctFields(6), FieldsWithSameLabel(6, 1, 2),
     RenamedFields(6)}

\* the template of the bug form is edited upstream: the next fetch of
\* GetAllFieldsForModal or GetModel (modal.go:238-243, :289-294) returns the
\* new fields
TemplateEdited(fields) ==
    /\ modalConfig[Bug].TemplateURL
    /\ edits < MaxEdits
    /\ modalConfig[Bug].Fields # fields
    /\ modalConfig' = [modalConfig EXCEPT ![Bug].Fields = fields]
    /\ edits' = edits + 1
    /\ UNCHANGED <<modalStates, sessionLog, forms, buttons, runs, lastRun,
                   issueCalls, interactions>>
    /\ UNCHANGED <<pending, cacheVars, storeVars, funcVars>>

\* the edit the runs of the whole bot go through: the template of the
\* two-page form is rewritten with other custom_ids
Rewritten(fields) ==
    IF fields = DistinctFields(6) THEN {RenamedFields(6)} ELSE {}

NextModal ==
    \/ \E cmd \in Commands, ch \in Channels, u \in Users :
          \E fetched1 \in BOOLEAN : HandleCommand(cmd, ch, u, fetched1)
    \/ \E run \in pending, fetched2 \in BOOLEAN : ShowModal(run, fetched2)
    \/ \E f \in Submittable : ModalSubmitDropped(f)
    \/ \E f \in Submittable, t \in Texts : ModalSubmitMultiPart(f, t)
    \/ \E f \in Submittable, t \in Texts : ModalSubmitContinuation(f, t)
    \/ \E f \in Submittable, t \in Texts : ModalSubmitLegacy(f, t)
    \/ \E r \in Runs, ok \in BOOLEAN : CreateIssueReturns(r, ok)
    \/ \E r \in Runs : DeleteSession(r)
    \/ \E b \in buttons : HandleButtonClick(b)
    \/ \E fields \in Rewritten(modalConfig[Bug].Fields) : TemplateEdited(fields)

SpecModal == InitModal /\ [][NextModal]_vars

\* the caches at start-up; the modal part stays idle
InitCache ==
    /\ IdleCache
    /\ workload \in {"releases", "comparisons", "changelog", "autocomplete"}
    /\ modalConfig = [cmd \in Commands |->
                        [Fields |-> DistinctFields(3),
                         Title |-> IF cmd = Bug THEN "Bug Report" ELSE "Feature Request",
                         ChannelIDs |-> {Channel7},
                         TemplateURL |-> (cmd = Bug),
                         Owner |-> GithubOwner,
                         Repo |-> ConfigRepo(cmd)]]
    /\ IdleModal
    /\ IdleStore
    /\ IdleFunc

NextCache ==
    \/ \E c \in Callers : CallUpdateReleaseCache(c)
    \/ \E c \in Callers : UpdateCheck1(c)
    \/ \E c \in Callers : UpdateLock(c)
    \/ \E c \in Callers : UpdateLockWait(c)
    \/ \E c \in Callers : \E list \in ReleaseLists : UpdateFetchOk(c, list)
    \/ \E c \in Callers : UpdateFetchErr(c)
    \/ \E c \in Callers : \E p \in ComparePairs : CallGetChangelogMessage(c, p[1], p[2])
    \/ \E c \in Callers : ChangelogCheck1(c)
    \/ \E c \in Callers : ChangelogLock(c)
    \/ \E c \in Callers : \E cmp \in Comparisons : ChangelogFetchOk(c, cmp)
    \/ \E c \in Callers : ChangelogFetchErr(c)
    \/ \E c \in Callers : \E p \in ChangelogOptions : HandleChangelog(c, p[1], p[2])
    \/ \E c \in Callers : HandleChangelogEdit(c)
    \/ \E c \in Callers : \E o \in AutocompleteOptions : HandleChangelogAutocomplete(c, o)
    \/ \E c \in Callers : AutocompleteRLock(c)
    \/ \E c \in Callers : AutocompleteRespond(c)
    \/ Tick

SpecCache == InitCache /\ [][NextCache]_vars

\* ------------------------------------------------------------------------
\* Scheduling of the cache calls
\*
\* A goroutine that can run does run (weak fairness of its steps); every
\* upstream call returns; and a goroutine waiting in RLock or Lock gets the
\* mutex: sync.RWMutex keeps new readers out while a writer waits and hands
\* the mutex to waiters that starve, so a waiter is not passed over forever
\* (strong fairness of the steps that acquire a mutex).
\* ------------------------------------------------------------------------

\* the upstream call of caller c returns, with a result or an error
UpstreamReturns(c) ==
    \/ \E list \in {<< >>, <<Tag1>>} : UpdateFetchOk(c, list)
    \/ UpdateFetchErr(c)
    \/ ChangelogFetchOk(c, 1)
    \/ ChangelogFetchErr(c)

\* the calls of the three functions with one input each: which list or
\* comparison comes back plays no part in whether a call returns
NextReturns ==
    \/ \E c \in Callers : CallUpdateReleaseCache(c)
    \/ \E c \in Callers : UpdateCheck1(c)
    \/ \E c \in Callers : UpdateLock(c)
    \/ \E c \in Callers : UpdateLockWait(c)
    \/ \E c \in Callers : CallGetChangelogMessage(c, Ver1, Ver2)
    \/ \E c \in Callers : ChangelogCheck1(c)
    \/ \E c \in Callers : ChangelogLock(c)
    \/ \E c \in Callers : HandleChangelogAutocomplete(c, << >>)
    \/ \E c \in Callers : AutocompleteRLock(c)
    \/ \E c \in Callers : AutocompleteRespond(c)
    \/ \E c \in Callers : UpstreamReturns(c)
    \/ Tick

FairCalls ==
    \A c \in Callers :
        /\ SF_vars(UpdateCheck1(c))
        /\ SF_vars(UpdateLock(c))
        /\ SF_vars(ChangelogCheck1(c))
        /\ SF_vars(ChangelogLock(c))
        /\ SF_vars(AutocompleteRLock(c))
        /\ WF_vars(AutocompleteRespond(c))
        /\ WF_vars(UpstreamReturns(c))

\* the caches at start-up, used by one of the three functions
InitReturns ==
    /\ InitCache
    /\ workload \in {"releases", "comparisons", "autocomplete"}

SpecReturns == InitReturns /\ [][NextReturns]_vars /\ FairCalls

\* ------------------------------------------------------------------------
\* The two assignments that store a fetched release list
\*
\* updateReleaseCache writes the list and the fetch time in two statements
\* (feature_handler.go:476-477). Here each is a step of its own, so that a
\* reader could run between them if the lock let it.
\* ------------------------------------------------------------------------

\* feature_handler.go:476: releaseCache = releases
UpdateStoreList(c, list) ==
    /\ UNCHANGED <<modalVars, storeVars, funcVars>>
    /\ call[c].pc = "fetch" /\ call[c].kind = "update"
    /\ releaseCacheMutex.writer = c
    /\ releaseCache' = Slice(list)
    /\ releasesLog' = [releasesLog EXCEPT
                         !.empties = @ + (IF Len(list) = 0 THEN 1 ELSE 0),
                         !.failed = FALSE]
    /\ call' = [call EXCEPT ![c].pc = "stamp"]
    /\ UNCHANGED <<now, lastCacheUpdate, releaseCacheMutex, comparisonCache,
                   comparisonCacheMutex, workload, started, compareLog>>

\* feature_handler.go:477-478: lastCacheUpdate = time.Now(), return nil and
\* the deferred Unlock
UpdateStoreTime(c) ==
    /\ UNCHANGED <<modalVars, storeVars, funcVars>>
    /\ call[c].pc = "stamp" /\ call[c].kind = "update"
    /\ releaseCacheMutex.writer = c
    /\ lastCacheUpdate' = now
    /\ releaseCacheMutex' = Unlock(releaseCacheMutex)
    /\ call' = [call EXCEPT ![c].pc = "done", ![c].ret = "nil"]
    /\ UNCHANGED <<now, releaseCache, comparisonCache, comparisonCacheMutex,
                   workload, started, releasesLog, compareLog>>

NextWrites ==
    \/ \E c \in Callers : CallUpdateReleaseCache(c)
    \/ \E c \in Callers : UpdateCheck1(c)
    \/ \E c \in Callers : UpdateLock(c)
    \/ \E c \in Callers : UpdateLockWait(c)
    \/ \E c \in Callers : \E list \in ReleaseLists : UpdateStoreList(c, list)
    \/ \E c \in Callers : UpdateStoreTime(c)
    \/ \E c \in Callers : UpdateFetchErr(c)
    \/ \E c \in Callers : \E p \in ComparePairs : CallGetChangelogMessage(c, p[1], p[2])
    \/ \E c \in Callers : ChangelogCheck1(c)
    \/ \E c \in Callers : ChangelogLock(c)
    \/ \E c \in Callers : \E cmp \in Comparisons : ChangelogFetchOk(c, cmp)
    \/ \E c \in Callers : ChangelogFetchErr(c)
    \/ \E c \in Callers : \E o \in AutocompleteOptions : HandleChangelogAutocomplete(c, o)
    \/ \E c \in Callers : AutocompleteRLock(c)
    \/ \E c \in Callers : AutocompleteRespond(c)
    \/ Tick

\* the caches at start-up, used by updateReleaseCache, by
\* getChangelogMessage or by handleChangelogAutocomplete
InitWrites ==
    /\ InitCache
    /\ workload \in {"releases", "comparisons", "autocomplete"}

SpecWrites == InitWrites /\ [][NextWrites]_vars

\* ------------------------------------------------------------------------
\* Accesses to the session store map
\*
\* discordgo runs HandleInteraction in a goroutine of its own for every
\* interaction.  modalStates is a plain map (interaction.go:34); the
\* handlers read, assign and delete its entries without taking any lock.
\* A map access is not atomic: it is modelled as a step that starts it and
\* a step that finishes it.  The same holds for the map SubmittedValues of
\* a session, which the handlers that found the session write (the merge
\* loop, modal_handler.go:40-56, :190-210) and read (len, :58, :212, :300,
\* and the range of buildIssueBody) through the pointer they looked up.
\* ------------------------------------------------------------------------

\* the goroutine is inside a write of the map (an assignment or a delete)
Writing(g) == access[g].pc \in {"insert", "delete"}

\* the goroutine is inside a read of the map (a lookup)
Reading(g) == access[g].pc = "lookup"

\* the goroutine is inside one assignment of the merge loop,
\* state.SubmittedValues[fieldLabel] = textInput.Value
WritingValues(g) == access[g].pc = "assign"

\* the goroutine is inside the range over SubmittedValues of buildIssueBody
IteratingValues(g) == access[g].pc = "body"

\* the goroutine is inside a read of SubmittedValues: len(...) or the range
ReadingValues(g) == access[g].pc = "count" \/ IteratingValues(g)

\* g and h hold the pointer to the same ModalState: obj is 0 for the session
\* the map holds under the key, and a number of its own for every session
\* that an assignment has replaced since it was looked up
SameSession(g, h) ==
    access[g].key = access[h].key /\ access[g].obj = access[h].obj

\* two goroutines are inside modalStates at the same time, one of them
\* writing
StoreRace ==
    \E g, h \in Goroutines :
        g # h /\ Writing(g) /\ (Writing(h) \/ Reading(h))

\* two goroutines are inside the SubmittedValues of one session at the same
\* time, one of them writing
ValuesRace ==
    \E g, h \in Goroutines :
        /\ g # h
        /\ SameSession(g, h)
        /\ WritingValues(g) /\ (WritingValues(h) \/ ReadingValues(h))

\* two goroutines are inside one map at the same time, one of them writing
Race == StoreRace \/ ValuesRace

\* a race the map operations of the Go runtime check for: an assignment or
\* delete during another assignment, delete, lookup or range.  len(m) reads
\* the count of the map without that check.
CheckedRace ==
    \/ StoreRace
    \/ \E g, h \in Goroutines :
          /\ g # h
          /\ SameSession(g, h)
          /\ WritingValues(g) /\ (WritingValues(h) \/ IteratingValues(h))

\* the ModalState the pointer of goroutine g leads to: the session the map
\* holds under the key, or the session g found there before the key was
\* assigned again or deleted
StateOf(acc, store, g) ==
    IF acc[g].obj = 0 THEN store[acc[g].key] ELSE acc[g].held[1]

\* the pointers held by the goroutines after the session under key k was
\* replaced or deleted: the holders keep the session that left the map, under
\* a free number
Detached(acc, k, store) ==
    IF k \notin DOMAIN store THEN acc
    ELSE
    LET used == {acc[g].obj : g \in {h \in Goroutines : acc[h].key = k}}
        free == CHOOSE n \in 1..(NumGoroutines + 1) :
                   /\ n \notin used
                   /\ \A m \in 1..(n - 1) : m \in used
    IN [g \in Goroutines |->
          IF acc[g].key = k /\ acc[g].obj = 0
                /\ acc[g].pc \in {"found", "merge", "assign", "merged", "count",
                                  "counted", "body", "built"}
             THEN [acc[g] EXCEPT !.obj = free, !.held = <<store[k]>>]
             ELSE acc[g]]

\* handleBug / handleFeature reach modalStates[stateKey] = &ModalState{...}
\* (bug_handler.go:28-29)
StartInsert(g, userID) ==
    /\ ~crashed
    /\ access[g].pc = "idle"
    /\ ~NotConfigured(modalConfig, Bug, Channel7)
    /\ Len(modalConfig[Bug].Fields) > 5
    /\ access' = [access EXCEPT ![g] =
          [IdleAccess EXCEPT !.pc = "insert", !.handler = "command",
                             !.key = StateKey(Bug, Channel7, userID),
                             !.user = userID]]
    /\ interactions < MaxInteractions
    /\ interactions' = interactions + 1
    /\ UNCHANGED <<crashed, funcVars, cacheVars, modalConfig, edits, modalStates,
                   sessionLog, forms, buttons, runs, pending, lastRun, issueCalls>>

\* the assignment completes (bug_handler.go:29-39)
FinishInsert(g) ==
    /\ ~crashed
    /\ access[g].pc = "insert"
    /\ modalStates' = StoreCreate(modalStates, access[g].key,
                                  NewModalState(modalConfig, Bug, Channel7))
    /\ access' = Detached([access EXCEPT ![g].pc = "inserted"], access[g].key,
                          modalStates)
    /\ UNCHANGED <<crashed, funcVars, cacheVars, modalConfig, edits, sessionLog, forms, buttons,
                   runs, pending, lastRun, issueCalls, interactions>>

\* the command handler calls GetModel, which fetches the template again
\* (bug_handler.go:42, modal.go:288-294): when the fetch succeeds the handler
\* shows the first page and returns (bug_handler.go:55-62, modal.go:305-341);
\* when it fails the handler answers 'not configured' and returns with the
\* session stored and no form shown (bug_handler.go:43-53)
ShowFirstPage(g, fetched2) ==
    /\ ~crashed
    /\ access[g].pc = "inserted"
    /\ ~fetched2 => modalConfig[Bug].TemplateURL
    /\ forms' =
          IF fetched2
             THEN forms \cup
                  {[CustomID |-> FirstModalID(Bug, Channel7),
                    Components |-> PageIDs(FirstPage(modalConfig[Bug].Fields)),
                    user |-> access[g].user, channel |-> Channel7]}
             ELSE forms
    /\ access' = [access EXCEPT ![g] = IdleAccess]
    /\ UNCHANGED <<crashed, funcVars, cacheVars, modalConfig, edits, modalStates,
                   sessionLog, buttons, runs, pending, lastRun, issueCalls,
                   interactions>>

\* handleModalSubmit, for a form a handler has shown, reaches its lookup
\* modalStates[stateKey] (modal_handler.go:18-35, :175): the key is made
\* from the form's identifier, page holds the custom_ids of its text inputs
SubmitLookup(g, form) ==
    /\ ~crashed
    /\ access[g].pc = "idle"
    /\ form \in forms
    /\ LET route == Route(form.CustomID, form.channel, form.user, modalStates) IN
       access' = [access EXCEPT ![g] =
          [IdleAccess EXCEPT !.pc = "lookup",
                             !.handler = IF route.to = "continuation"
                                            THEN "continuation" ELSE "submit",
                             !.key = route.key, !.user = form.user,
                             !.page = form.Components]]
    /\ interactions < MaxInteractions
    /\ interactions' = interactions + 1
    /\ UNCHANGED <<crashed, funcVars, cacheVars, modalConfig, edits, modalStates,
                   sessionLog, forms, buttons, runs, pending, lastRun, issueCalls>>

\* handleButtonClick, for a Continue button a handler has sent, reaches its
\* lookup modalStates[stateKey] (modal_handler.go:284-286)
ClickLookup(g, button) ==
    /\ ~crashed
    /\ access[g].pc = "idle"
    /\ button \in buttons
    /\ HasPrefix(button.CustomID, ContinueTag \o <<Underscore>>)
    /\ access' = [access EXCEPT ![g] =
          [IdleAccess EXCEPT !.pc = "lookup", !.handler = "click",
                             !.key = TrimPrefix(button.CustomID,
                                                ContinueTag \o <<Underscore>>),
                             !.user = button.user]]
    /\ interactions < MaxInteractions
    /\ interactions' = interactions + 1
    /\ UNCHANGED <<crashed, funcVars, cacheVars, modalConfig, edits, modalStates,
                   sessionLog, forms, buttons, runs, pending, lastRun, issueCalls>>

\* the lookup completes: the handler goes on with the session it found
\* (modal_handler.go:35-37, :175-176, :286-287)
FinishLookup(g) ==
    /\ ~crashed
    /\ access[g].pc = "lookup"
    /\ access' = [access EXCEPT ![g] =
          IF access[g].key \in DOMAIN modalStates
             THEN [@ EXCEPT !.pc = "found"]
             ELSE IdleAccess]
    /\ UNCHANGED <<crashed, funcVars, cacheVars, modalVars>>

\* a submit handler enters the loop over the text inputs of the submission
\* (modal_handler.go:40-43, :190-193); page holds the custom_ids of the
\* inputs the loop has still to store
StartMerge(g) ==
    /\ ~crashed
    /\ access[g].pc = "found" /\ access[g].handler # "click"
    /\ access' = [access EXCEPT ![g].pc = "merge"]
    /\ UNCHANGED <<crashed, funcVars, cacheVars, modalVars>>

\* the loop has found the label of its next text input and reaches the
\* assignment state.SubmittedValues[fieldLabel] = textInput.Value
\* (modal_handler.go:44-52, :194-206)
StartAssign(g) ==
    /\ ~crashed
    /\ access[g].pc = "merge"
    /\ Len(access[g].page) > 0
    /\ access' = [access EXCEPT ![g].pc = "assign"]
    /\ UNCHANGED <<crashed, funcVars, cacheVars, modalVars>>

\* the assignment completes (modal_handler.go:52, :206): the session the
\* handler holds has the value of this one input under its label, and the
\* loop goes on with the inputs that follow.  The session is reached through
\* the pointer, whether the map still holds it or not.
FinishAssign(g) ==
    /\ ~crashed
    /\ access[g].pc = "assign"
    /\ LET state == StateOf(access, modalStates, g)
           values == MergeSubmitted(state.SubmittedValues, state.AllFields,
                        SubmittedInputs([Components |-> <<Head(access[g].page)>>],
                                        "x"))
           rest == Tail(access[g].page)
       IN IF access[g].obj = 0
             THEN /\ modalStates' =
                       [modalStates EXCEPT ![access[g].key].SubmittedValues = values]
                  /\ access' = [access EXCEPT ![g].pc = "merge", ![g].page = rest]
             ELSE /\ access' =
                       [h \in Goroutines |->
                          IF SameSession(g, h)
                             THEN [access[h] EXCEPT
                                     !.held = <<[state EXCEPT
                                                   !.SubmittedValues = values]>>,
                                     !.pc = IF h = g THEN "merge" ELSE @,
                                     !.page = IF h = g THEN rest ELSE @]
                             ELSE access[h]]
                  /\ UNCHANGED modalStates
    /\ UNCHANGED <<crashed, funcVars, cacheVars, modalConfig, edits, sessionLog, forms, buttons,
                   runs, pending, lastRun, issueCalls, interactions>>

\* the loop has stored every text input of the submission
\* (modal_handler.go:40-56, :190-210)
FinishMerge(g) ==
    /\ ~crashed
    /\ access[g].pc = "merge"
    /\ Len(access[g].page) = 0
    /\ access' = [access EXCEPT ![g].pc = "merged"]
    /\ UNCHANGED <<crashed, funcVars, cacheVars, modalVars>>

\* the handler reaches len(state.SubmittedValues)
\* (modal_handler.go:58, :212, :300)
StartCount(g) ==
    /\ ~crashed
    /\ \/ access[g].pc = "merged"
       \/ access[g].pc = "found" /\ access[g].handler = "click"
    /\ access' = [access EXCEPT ![g].pc = "count"]
    /\ UNCHANGED <<crashed, funcVars, cacheVars, modalVars>>

\* the read is done and the handler has currentIndex.  handleButtonClick
\* slices AllFields[currentIndex:endIndex] (modal_handler.go:300-305), shows
\* the page and returns; out of range the slice expression panics
FinishCount(g) ==
    /\ ~crashed
    /\ access[g].pc = "count"
    /\ LET state == StateOf(access, modalStates, g)
           currentIndex == Cardinality(DOMAIN state.SubmittedValues)
       IN IF access[g].handler = "click"
             THEN /\ access' = [access EXCEPT ![g] = IdleAccess]
                  /\ crashed' = ~SliceInRange(state.AllFields, currentIndex)
                  /\ forms' =
                       IF SliceInRange(state.AllFields, currentIndex)
                          THEN forms \cup
                               {[CustomID |-> ContinueModalID(access[g].key),
                                 Components |->
                                    PageIDs(NextChunk(state.AllFields, currentIndex)),
                                 user |-> access[g].user, channel |-> Channel7]}
                          ELSE forms
             ELSE /\ access' = [access EXCEPT ![g].pc = "counted",
                                              ![g].count = currentIndex]
                  /\ UNCHANGED <<crashed, forms>>
    /\ UNCHANGED <<funcVars, cacheVars, modalConfig, edits, modalStates, sessionLog,
                   buttons, runs, pending, lastRun, issueCalls, interactions>>

\* the session is not complete, currentIndex < len(state.AllFields): the
\* handler answers with the Continue button and returns
\* (modal_handler.go:61-89, :215-244)
ReturnPartial(g) ==
    /\ ~crashed
    /\ access[g].pc = "counted"
    /\ MoreFields(access[g].count, Len(StateOf(access, modalStates, g).AllFields))
    /\ buttons' = buttons \cup
          {[CustomID |-> ContinueButtonID(access[g].key),
            user |-> access[g].user, channel |-> Channel7]}
    /\ access' = [access EXCEPT ![g] = IdleAccess]
    /\ UNCHANGED <<crashed, funcVars, cacheVars, modalConfig, edits, modalStates,
                   sessionLog, forms, runs, pending, lastRun, issueCalls,
                   interactions>>

\* the session is complete: the handler calls buildIssueBody, which ranges
\* over state.SubmittedValues (modal_handler.go:92, :247, bug_handler.go:77)
StartBody(g) ==
    /\ ~crashed
    /\ access[g].pc = "counted"
    /\ ~MoreFields(access[g].count, Len(StateOf(access, modalStates, g).AllFields))
    /\ access' = [access EXCEPT ![g].pc = "body"]
    /\ UNCHANGED <<crashed, funcVars, cacheVars, modalVars>>

\* the range is done and the body is built (bug_handler.go:77-83)
FinishBody(g) ==
    /\ ~crashed
    /\ access[g].pc = "body"
    /\ access' = [access EXCEPT ![g].pc = "built"]
    /\ UNCHANGED <<crashed, funcVars, cacheVars, modalVars>>

\* CreateIssue has returned and the answer is sent: the handler reaches
\* delete(modalStates, stateKey) (modal_handler.go:103, :117, :258, :277)
StartDelete(g) ==
    /\ ~crashed
    /\ access[g].pc = "built"
    /\ access' = [access EXCEPT ![g].pc = "delete"]
    /\ UNCHANGED <<crashed, funcVars, cacheVars, modalVars>>

\* the delete completes: the key leaves the map, whichever session it holds
FinishDelete(g) ==
    /\ ~crashed
    /\ access[g].pc = "delete"
    /\ modalStates' = StoreDelete(modalStates, access[g].key)
    /\ access' = Detached([access EXCEPT ![g] = IdleAccess], access[g].key,
                          modalStates)
    /\ UNCHANGED <<crashed, funcVars, cacheVars, modalConfig, edits, sessionLog, forms, buttons,
                   runs, pending, lastRun, issueCalls, interactions>>

\* the Go runtime finds a map write in progress during another assignment,
\* delete, lookup or range and stops the process ("fatal error: concurrent
\* map writes" / "concurrent map read and map write" / "concurrent map
\* iteration and map write"); the detection is best effort, so the accesses
\* may also complete
ConcurrentMapFault ==
    /\ ~crashed
    /\ CheckedRace
    /\ crashed' = TRUE
    /\ UNCHANGED <<access, funcVars, cacheVars, modalVars>>

\* the bot with a six-field bug form, with or without a repeated label, and
\* no interaction yet
InitStore ==
    /\ IdleCache
    /\ workload = "releases"
    /\ modalConfig \in {cfg \in Configs :
                           cfg[Bug].Fields \in {DistinctFields(6),
                                                FieldsWithSameLabel(6, 1, 2)}}
    /\ IdleModal
    /\ IdleStore
    /\ IdleFunc

NextStore ==
    \/ \E g \in Goroutines, u \in Users : StartInsert(g, u)
    \/ \E g \in Goroutines : FinishInsert(g)
    \/ \E g \in Goroutines, fetched2 \in BOOLEAN : ShowFirstPage(g, fetched2)
    \/ \E g \in Goroutines, form \in forms : SubmitLookup(g, form)
    \/ \E g \in Goroutines, button \in buttons : ClickLookup(g, button)
    \/ \E g \in Goroutines : FinishLookup(g)
    \/ \E g \in Goroutines : StartMerge(g)
    \/ \E g \in Goroutines : StartAssign(g)
    \/ \E g \in Goroutines : FinishAssign(g)
    \/ \E g \in Goroutines : FinishMerge(g)
    \/ \E g \in Goroutines : StartCount(g)
    \/ \E g \in Goroutines : FinishCount(g)
    \/ \E g \in Goroutines : ReturnPartial(g)
    \/ \E g \in Goroutines : StartBody(g)
    \/ \E g \in Goroutines : FinishBody(g)
    \/ \E g \in Goroutines : StartDelete(g)
    \/ \E g \in Goroutines : FinishDelete(g)
    \/ ConcurrentMapFault

SpecStore == InitStore /\ [][NextStore]_vars

\* ------------------------------------------------------------------------
\* truncatePlaceholder (bug_handler.go:86-92); a text is the sequence of its
\* bytes, as len(text) and text[:97] count bytes
\* ------------------------------------------------------------------------

\* Discord's limit on a placeholder
PlaceholderLimit == 100

\* bytes kept in front of the ellipsis
PlaceholderKeep == 97

Ellipsis == <<".", ".", ".">>

\* mutant: one byte more is kept in front of the ellipsis
truncatePlaceholderKeepsOneMore(text) ==
    IF Len(text) > PlaceholderLimit
       THEN SubSeq(text, 1, PlaceholderKeep + 1) \o Ellipsis
       ELSE text

truncatePlaceholder(text) ==
    IF Len(text) > PlaceholderLimit
       THEN SubSeq(text, 1, PlaceholderKeep) \o Ellipsis
       ELSE text

\* the texts tried: of every length up to the bound, made of letters, of
\* dots, of letters and dots in turn, and of two-byte characters (the bytes
\* C3 A9 of an e with acute accent)
Placeholders ==
    {[i \in 1..n |-> "a"] : n \in 0..MaxPlaceholderLen}
    \cup {[i \in 1..n |-> "."] : n \in 0..MaxPlaceholderLen}
    \cup {[i \in 1..n |-> IF i % 2 = 1 THEN "a" ELSE "."] : n \in 0..MaxPlaceholderLen}
    \cup {[i \in 1..(2 * n) |-> IF i % 2 = 1 THEN "C3" ELSE "A9"] :
             n \in 0..(MaxPlaceholderLen \div 2)}

\* truncatePlaceholder(field.Placeholder), modal_handler.go:321
TruncateOnce ==
    /\ applied = 0
    /\ truncated' = <<truncatePlaceholder(placeholder)>>
    /\ applied' = 1
    /\ UNCHANGED <<placeholder, choiceVars, keyVars, repoVars, cacheVars, modalVars,
                   storeVars>>

\* the function applied to its own result
TruncateAgain ==
    /\ applied = 1
    /\ truncated' = Append(truncated, truncatePlaceholder(truncated[1]))
    /\ applied' = 2
    /\ UNCHANGED <<placeholder, choiceVars, keyVars, repoVars, cacheVars, modalVars,
                   storeVars>>

\* a placeholder text of a configured field, not yet truncated
InitTruncate ==
    /\ IdleCache
    /\ workload = "releases"
    /\ modalConfig = CHOOSE cfg \in Configs : cfg[Bug].Fields = DistinctFields(6)
    /\ IdleModal
    /\ IdleStore
    /\ placeholder \in Placeholders
    /\ truncated = << >>
    /\ applied = 0
    /\ IdleChoices
    /\ IdleKeys
    /\ IdleRepo

NextTruncate == TruncateOnce \/ TruncateAgain

SpecTruncate == InitTruncate /\ [][NextTruncate]_vars

\* ------------------------------------------------------------------------
\* The choices of handleChangelogAutocomplete (feature_handler.go:420-451),
\* for release lists longer than the limit of one response
\* ------------------------------------------------------------------------

DigitChars == <<"0", "1", "2", "3", "4", "5", "6", "7", "8", "9">>

\* the decimal digits of i, for i < 100
Digits(i) ==
    IF i < 10 THEN <<DigitChars[i + 1]>>
    ELSE <<DigitChars[(i \div 10) + 1], DigitChars[(i % 10) + 1]>>

\* the ways the tag names of a release list are written
TagStyles == {"lower", "upper", "mixed"}

\* the tag name of the i-th release of a list
TagName(style, i) ==
    LET letter == IF style = "lower" THEN "v"
                  ELSE IF style = "upper" THEN "V"
                  ELSE IF i % 3 = 0 THEN "v"
                  ELSE IF i % 3 = 1 THEN "V"
                  ELSE "b"
    IN <<letter>> \o Digits(i)

\* the release lists the cache may hold, as their tag names
TagLists ==
    {[i \in 1..n |-> TagName(style, i)] : n \in 0..MaxReleases, style \in TagStyles}

\* the options an autocomplete interaction may carry
OptionLists ==
    {<< >>,
     <<Option(FALSE, <<"x">>)>>,
     <<Option(TRUE, << >>)>>,
     <<Option(TRUE, <<"v">>)>>,
     <<Option(TRUE, <<"V">>)>>,
     <<Option(TRUE, <<"1">>)>>,
     <<Option(TRUE, <<"V", "1">>)>>,
     <<Option(TRUE, <<"x">>)>>,
     <<Option(FALSE, <<"b">>), Option(TRUE, <<"2">>)>>,
     <<Option(TRUE, <<"B">>), Option(TRUE, <<"v">>)>>}

\* feature_handler.go:420-451: the choices are collected from the cache and
\* sent
RespondChoices ==
    /\ ~responded
    /\ sentChoices' = AutocompleteChoices(cachedTags, givenOptions)
    /\ responded' = TRUE
    /\ UNCHANGED <<cachedTags, givenOptions, placeholder, truncated, applied, keyVars,
                   repoVars>>
    /\ UNCHANGED <<cacheVars, modalVars, storeVars>>

\* a cached release list and an autocomplete interaction
InitChoices ==
    /\ IdleCache
    /\ workload = "autocomplete"
    /\ modalConfig = CHOOSE cfg \in Configs : cfg[Bug].Fields = DistinctFields(6)
    /\ IdleModal
    /\ IdleStore
    /\ placeholder = << >>
    /\ truncated = << >>
    /\ applied = 0
    /\ cachedTags \in TagLists
    /\ givenOptions \in OptionLists
    /\ sentChoices = << >>
    /\ responded = FALSE
    /\ IdleKeys
    /\ IdleRepo

NextChoices == RespondChoices

SpecChoices == InitChoices /\ [][NextChoices]_vars

\* ------------------------------------------------------------------------
\* Session keys through the identifiers of the Continue button and of the
\* continuation form
\* ------------------------------------------------------------------------

\* Discord channel and user IDs: decimal strings
Snowflakes ==
    {<<"7">>, <<"8">>, <<"1", "2">>, <<"7", "0">>, <<"1", "2", "3">>,
     <<"7", "0", "7">>, <<"9", "0", "0", "1">>, <<"1", "2", "3", "4", "5">>}

\* the session keys handleBug / handleFeature build
SessionKeys ==
    {StateKey(command, channelID, userID) :
        command \in Commands, channelID \in Snowflakes, userID \in Snowflakes}

\* handleButtonClick, modal_handler.go:284-285: the key behind a button
\* identifier ("none" when the identifier is no Continue button)
ButtonStateKey(customID) ==
    IF HasPrefix(customID, ContinueTag \o <<Underscore>>)
       THEN TrimPrefix(customID, ContinueTag \o <<Underscore>>)
       ELSE <<"none">>

\* handleModalSubmit, modal_handler.go:18-28: the key passed to
\* handleModalContinuation ("none" when the form is no continuation form)
FormStateKey(customID) ==
    LET route == Route(customID, << >>, << >>, EmptyMap) IN
    IF route.to = "continuation" THEN route.key ELSE <<"none">>

\* the Continue button carrying the key is clicked (modal_handler.go:76-81
\* builds the identifier, :281-285 parses it)
RecoverFromButton ==
    /\ recovered.button = <<"pending">>
    /\ recovered' = [recovered EXCEPT
                        !.button = ButtonStateKey(ContinueButtonID(issued))]
    /\ UNCHANGED <<issued, placeholder, truncated, applied, choiceVars, repoVars>>
    /\ UNCHANGED <<cacheVars, modalVars, storeVars>>

\* the continuation form carrying the key is submitted (modal_handler.go:331
\* builds the identifier, :18-26 parses it)
RecoverFromForm ==
    /\ recovered.form = <<"pending">>
    /\ recovered' = [recovered EXCEPT
                        !.form = FormStateKey(ContinueModalID(issued))]
    /\ UNCHANGED <<issued, placeholder, truncated, applied, choiceVars, repoVars>>
    /\ UNCHANGED <<cacheVars, modalVars, storeVars>>

\* a session key has been put into the identifiers
InitKeys ==
    /\ IdleCache
    /\ workload = "releases"
    /\ modalConfig = CHOOSE cfg \in Configs : cfg[Bug].Fields = DistinctFields(6)
    /\ IdleModal
    /\ IdleStore
    /\ placeholder = << >>
    /\ truncated = << >>
    /\ applied = 0
    /\ IdleChoices
    /\ issued \in SessionKeys
    /\ recovered = NoKeys
    /\ IdleRepo

NextKeys == RecoverFromButton \/ RecoverFromForm

SpecKeys == InitKeys /\ [][NextKeys]_vars

\* ------------------------------------------------------------------------
\* The /repo command and the repository cache of the GitHub client
\* (src/unnamed/part_003:10-44, src/unnamed/part_007:103-126).  Every
\* access to repoCache is made under cacheMux and the mutex is released
\* before the call goes on, so that each locked section is one step; the
\* request to GitHub is made with no lock held.
\* ------------------------------------------------------------------------

\* the values of the "name" option of /repo; "" is the option left out
RepoNames == {"", "firmware", "web"}

\* fmt.Sprintf("%s/%s", owner, repo)
RepoCacheKey(owner, repo) == <<owner, "/", repo>>

\* the repository GitHub answers with
UpstreamRepository(owner, repo) ==
    [full_name |-> RepoCacheKey(owner, repo),
     html_url |-> <<"https://github.com/", owner, "/", repo>>]

\* the requests made to GitHub for a key, and those that failed
RepoLogOf(k) == IF k \in DOMAIN repoLog THEN repoLog[k] ELSE [calls |-> 0, failed |-> 0]

\* handleRepo up to the call of GetRepository: the option or the default
\* repository, and the deferred response
HandleRepo(c, name) ==
    /\ lookup[c].pc \in {"idle", "done"}
    /\ repoStarted < MaxCalls
    /\ LET repo == IF name = "" THEN GithubRepo ELSE name
       IN  lookup' = [lookup EXCEPT ![c] =
                         [pc |-> "check", repo |-> repo,
                          cacheKey |-> RepoCacheKey(GithubOwner, repo),
                          repository |-> NoRepository, err |-> FALSE,
                          response |-> "deferred"]]
    /\ repoStarted' = repoStarted + 1
    /\ UNCHANGED <<repoCache, repoLog>>
    /\ UNCHANGED <<placeholder, truncated, applied, choiceVars, keyVars, cacheVars,
                   modalVars, storeVars>>

\* GetRepository, the read under RLock: a stored repository is returned,
\* otherwise the request to GitHub is sent
GetRepositoryCheck(c) ==
    /\ lookup[c].pc = "check"
    /\ LET k == lookup[c].cacheKey
       IN  IF k \in DOMAIN repoCache
           THEN /\ lookup' = [lookup EXCEPT ![c].pc = "return",
                                            ![c].repository = repoCache[k]]
                /\ UNCHANGED repoLog
           ELSE /\ lookup' = [lookup EXCEPT ![c].pc = "fetch"]
                /\ repoLog' = MapPut(repoLog, k,
                                     [RepoLogOf(k) EXCEPT !.calls = @ + 1])
    /\ UNCHANGED <<repoCache, repoStarted>>
    /\ UNCHANGED <<placeholder, truncated, applied, choiceVars, keyVars, cacheVars,
                   modalVars, storeVars>>

\* c.client.Repositories.Get answers with the repository
RepositoriesGetOk(c) ==
    /\ lookup[c].pc = "fetch"
    /\ lookup' = [lookup EXCEPT ![c].pc = "store",
                                ![c].repository =
                                    UpstreamRepository(GithubOwner, lookup[c].repo)]
    /\ UNCHANGED <<repoCache, repoLog, repoStarted>>
    /\ UNCHANGED <<placeholder, truncated, applied, choiceVars, keyVars, cacheVars,
                   modalVars, storeVars>>

\* c.client.Repositories.Get fails: GetRepository returns the error
RepositoriesGetErr(c) ==
    /\ lookup[c].pc = "fetch"
    /\ lookup' = [lookup EXCEPT ![c].pc = "return", ![c].err = TRUE]
    /\ repoLog' = MapPut(repoLog, lookup[c].cacheKey,
                         [RepoLogOf(lookup[c].cacheKey) EXCEPT !.failed = @ + 1])
    /\ UNCHANGED <<repoCache, repoStarted>>
    /\ UNCHANGED <<placeholder, truncated, applied, choiceVars, keyVars, cacheVars,
                   modalVars, storeVars>>

\* GetRepository, the write under Lock
GetRepositoryStore(c) ==
    /\ lookup[c].pc = "store"
    /\ repoCache' = MapPut(repoCache, lookup[c].cacheKey, lookup[c].repository)
    /\ lookup' = [lookup EXCEPT ![c].pc = "return"]
    /\ UNCHANGED <<repoLog, repoStarted>>
    /\ UNCHANGED <<placeholder, truncated, applied, choiceVars, keyVars, cacheVars,
                   modalVars, storeVars>>

\* handleRepo after GetRepository: the deferred response is edited
HandleRepoEdit(c) ==
    /\ lookup[c].pc = "return"
    /\ lookup' = [lookup EXCEPT ![c].pc = "done",
                                ![c].response = IF lookup[c].err THEN "not_found"
                                                ELSE "url"]
    /\ UNCHANGED <<repoCache, repoLog, repoStarted>>
    /\ UNCHANGED <<placeholder, truncated, applied, choiceVars, keyVars, cacheVars,
                   modalVars, storeVars>>

InitRepo ==
    /\ modalConfig = EmptyMap
    /\ IdleModal
    /\ IdleCache
    /\ workload = "releases"
    /\ IdleStore
    /\ IdleFunc

NextRepo ==
    \/ \E c \in Callers, name \in RepoNames : HandleRepo(c, name)
    \/ \E c \in Callers : GetRepositoryCheck(c)
    \/ \E c \in Callers : RepositoriesGetOk(c)
    \/ \E c \in Callers : RepositoriesGetErr(c)
    \/ \E c \in Callers : GetRepositoryStore(c)
    \/ \E c \in Callers : HandleRepoEdit(c)

SpecRepo == InitRepo /\ [][NextRepo]_vars

\* ------------------------------------------------------------------------
\* Commands while the issue template behind the template URL changes
\*
\* GetAllFieldsForModal fetches the template on every invocation
\* (modal.go:238-243), so the field list of a command with a template URL
\* is the one the template holds at that time.
\* ------------------------------------------------------------------------

\* the handler runs that can wait for CreateIssue at the same time when
\* Discord delivers interactions while an earlier one is still handled
\* (each interaction is handled in its own goroutine)
Deliveries == 1..(NumRuns + 1)

\* the bot after start-up with a two-page bug form and room for overlapping
\* handler runs
InitDelivery ==
    /\ modalConfig \in {cfg \in Configs : cfg[Bug].Fields = DistinctFields(6)}
    /\ edits = 0
    /\ modalStates = EmptyMap
    /\ sessionLog = EmptyMap
    /\ forms = {}
    /\ buttons = {}
    /\ runs = [r \in Deliveries |-> IdleRun]
    /\ pending = {}
    /\ lastRun = NoRun
    /\ issueCalls = 0
    /\ interactions = 0
    /\ IdleCache
    /\ workload = "releases"
    /\ IdleStore
    /\ IdleFunc

\* one user fills in the bug form; every submission and click can be
\* delivered again, and CreateIssue returns at any later time
NextDelivery ==
    \/ HandleCommand(Bug, Channel7, User1, TRUE)
    \/ \E run \in pending : ShowModal(run, TRUE)
    \/ \E f \in forms : ModalSubmitMultiPart(f, "x")
    \/ \E f \in forms : ModalSubmitContinuation(f, "x")
    \/ \E b \in buttons : HandleButtonClick(b)
    \/ \E r \in DOMAIN runs, ok \in BOOLEAN : CreateIssueReturns(r, ok)
    \/ \E r \in DOMAIN runs : DeleteSession(r)

SpecDelivery == InitDelivery /\ [][NextDelivery]_vars

\* a component interaction with the identifier of button b arrives from the
\* member v: handleButtonClick takes the identifier from the interaction
\* and the member from i.Member, two independent inputs
\* (modal_handler.go:281-286)
ButtonReaches(b, v) ==
    /\ b \in buttons
    /\ v # b.user
    /\ buttons' = buttons \cup {[b EXCEPT !.user = v]}
    /\ UNCHANGED <<modalConfig, edits, modalStates, sessionLog, forms, runs, lastRun,
                   issueCalls, interactions>>
    /\ UNCHANGED <<pending, cacheVars, storeVars, funcVars>>

\* user 1 fills in the bug form and interactions with the identifiers of
\* the session arrive from other members as well
NextForeign ==
    \/ HandleCommand(Bug, Channel7, User1, TRUE)
    \/ \E run \in pending : ShowModal(run, TRUE)
    \/ \E f \in forms : ModalSubmitMultiPart(f, "x")
    \/ \E f \in forms, t \in Texts : ModalSubmitContinuation(f, t)
    \/ \E b \in buttons : HandleButtonClick(b)
    \/ \E r \in DOMAIN runs, ok \in BOOLEAN : CreateIssueReturns(r, ok)
    \/ \E r \in DOMAIN runs : DeleteSession(r)
    \/ \E b \in buttons, v \in Users : ButtonReaches(b, v)

SpecForeign == InitDelivery /\ [][NextForeign]_vars

NextTemplate ==
    \/ \E cmd \in Commands, ch \in Channels, u \in Users :
          \E fetched1 \in BOOLEAN : HandleCommand(cmd, ch, u, fetched1)
    \/ \E run \in pending, fetched2 \in BOOLEAN : ShowModal(run, fetched2)
    \/ \E f \in forms : ModalSubmitMultiPart(f, "x")
    \/ \E f \in forms : ModalSubmitContinuation(f, "x")
    \/ \E f \in forms : ModalSubmitLegacy(f, "x")
    \/ \E r \in Runs, ok \in BOOLEAN : CreateIssueReturns(r, ok)
    \/ \E r \in Runs : DeleteSession(r)
    \/ \E b \in buttons : HandleButtonClick(b)
    \/ \E fields \in TemplateVersions : TemplateEdited(fields)

\* the bot after start-up, with one of the versions behind the template URL
InitTemplate ==
    /\ InitModal
    /\ modalConfig[Bug].Fields \in TemplateVersions

SpecTemplate == InitTemplate /\ [][NextTemplate]_vars

\* ------------------------------------------------------------------------
\* Properties of the caches
\* ------------------------------------------------------------------------

\* every goroutine has made exactly one call and has returned from it
EachCalledOnce ==
    /\ started = NumCallers
    /\ \A c \in Callers : call[c].pc = "done"

\* upstream calls that have returned successfully
SuccessfulFetches ==
    IF workload \in {"releases", "autocomplete"}
       THEN releasesLog.calls - releasesLog.errs
              - Cardinality({c \in Callers : call[c].pc = "fetch"})
       ELSE compareLog.calls - compareLog.errs
              - Cardinality({c \in Callers : call[c].pc = "fetch"})

\* the callers raced on a cold list cache and no GetReleases call failed
C1_Race ==
    /\ workload = "releases"
    /\ EachCalledOnce
    /\ \A c \in Callers : call[c].saw = "cold"
    /\ releasesLog.errs = 0

\* C1 as stated: K >= 2 concurrent updateReleaseCache calls on a cold cache
\* with a succeeding upstream make exactly one GetReleases call, all return
\* nil and the cache holds the fetched payload.
C1_Original ==
    C1_Race => /\ releasesLog.calls = 1
               /\ \A c \in Callers : call[c].ret = "nil"
               /\ ~releaseCache.isNil

\* the callers have all returned before one TTL has passed since the first
\* of them was started
WithinTTL(ttl) == now < ttl

\* C1, amended: K >= 2 concurrent updateReleaseCache calls on a cold cache
\* whose upstream call succeeds with a non-empty list, and which all return
\* within less than the TTL, make exactly one GetReleases call in total,
\* every caller returns nil, and the cache holds that non-empty list with
\* its fetch time set.
C1_Amended ==
    (C1_Race /\ releasesLog.empties = 0 /\ WithinTTL(ReleaseCacheTTL)) =>
        /\ releasesLog.calls = 1
        /\ \A c \in Callers : call[c].ret = "nil"
        /\ ~releaseCache.isNil /\ Len(releaseCache.items) > 0
        /\ lastCacheUpdate # ZeroTime

C1_Witness ==
    /\ C1_Race
    /\ WithinTTL(ReleaseCacheTTL)
    /\ NumCallers >= 2
    /\ releasesLog.empties = 0
    /\ releasesLog.calls = 1
    /\ \E c \in Callers : call[c].fetched = 0

\* the callers raced on one cold key and no CompareCommits call failed
C2_Race ==
    /\ workload = "comparisons"
    /\ EachCalledOnce
    /\ \A c \in Callers : call[c].saw = "cold"
    /\ \A c, d \in Callers :
          CacheKey(call[c].base, call[c].head) = CacheKey(call[d].base, call[d].head)
    /\ compareLog.errs = 0

\* C2 as stated: K >= 2 concurrent getChangelogMessage calls for the same
\* key on a cold cache with a succeeding upstream make exactly one
\* CompareCommits call, and all callers receive the identical message.
C2_SingleCompare ==
    C2_Race => /\ compareLog.calls = 1
               /\ \A c, d \in Callers :
                     /\ call[c].ret = "nil"
                     /\ call[c].msg = call[d].msg
                     /\ call[c].msg # NoMessage

\* C2, amended: K >= 2 concurrent getChangelogMessage calls for the same
\* key on a cold cache with a succeeding upstream, which all return within
\* less than the TTL, make exactly one CompareCommits call, and all callers
\* receive the identical message.
C2_Amended ==
    (C2_Race /\ WithinTTL(ComparisonCacheTTL)) =>
        /\ compareLog.calls = 1
        /\ \A c, d \in Callers :
              /\ call[c].ret = "nil"
              /\ call[c].msg = call[d].msg
              /\ call[c].msg # NoMessage

C2_Witness ==
    /\ C2_Race
    /\ WithinTTL(ComparisonCacheTTL)
    /\ NumCallers >= 2
    /\ compareLog.calls = 1
    /\ \E c \in Callers : call[c].fetched = 0

\* a step in which an upstream call of c returns its failure
UpstreamFailed(c) ==
    /\ call[c].pc = "fetch"
    /\ \/ releasesLog'.errs = releasesLog.errs + 1 /\ call[c].kind = "update"
       \/ compareLog'.errs = compareLog.errs + 1 /\ call[c].kind = "changelog"

\* C3: when the upstream fetch of a call fails, the call returns the error
\* and leaves payload, fetch time and the whole keyed map as they were.
C3_ErrorLeavesCache ==
    [][\A c \in Callers :
          UpstreamFailed(c) =>
             /\ call'[c].pc = "done" /\ call'[c].ret = "err"
             /\ releaseCache' = releaseCache
             /\ lastCacheUpdate' = lastCacheUpdate
             /\ comparisonCache' = comparisonCache]_vars

\* a call has failed on a list cache that holds a stale, non-empty payload
C3_Witness ==
    /\ workload = "releases"
    /\ \E c \in Callers :
          /\ call[c].pc = "done" /\ call[c].ret = "err"
          /\ call[c].saw = "expired"
    /\ Len(releaseCache.items) > 0
    /\ Since(now, lastCacheUpdate) >= ReleaseCacheTTL

\* C4 as stated: once an entry is stored, a call within the TTL makes no
\* upstream call, and a call after the TTL makes exactly one upstream call
\* and replaces the entry.
C4_Original ==
    \A c \in Callers :
       call[c].pc = "done" =>
          /\ call[c].saw \in {"fresh", "empty"} => call[c].fetched = 0
          /\ call[c].saw = "expired" => call[c].fetched = 1 /\ call[c].ret = "nil"

\* C4, amended (state part): a call that finds a stored entry within its
\* TTL (for the list cache: a non-empty one) makes no upstream call and
\* returns nil; a call that finds the entry expired makes at most one
\* upstream call, and none only when another call has refreshed the entry.
C4_Inv ==
    \A c \in Callers :
       call[c].pc = "done" =>
          /\ call[c].saw = "fresh" => call[c].fetched = 0 /\ call[c].ret = "nil"
          /\ call[c].saw = "expired" =>
                /\ call[c].fetched <= 1
                /\ call[c].fetched = 0 =>
                      call[c].ret = "nil" /\ SuccessfulFetches >= 2
                /\ call[c].fetched = 1 /\ call[c].ret = "nil" =>
                      SuccessfulFetches >= 2

\* C4, amended (step part): a call that returns without fetching returns
\* the cached message; a successful fetch replaces payload and fetch time.
C4_Step ==
    \A c \in Callers :
       LET key == CacheKey(call[c].base, call[c].head) IN
       /\ (call[c].pc \in {"check1", "lock"} /\ call'[c].pc = "done") =>
             /\ UNCHANGED <<releaseCache, lastCacheUpdate, comparisonCache,
                            releasesLog, compareLog>>
             /\ call[c].kind = "changelog" =>
                   call'[c].msg = comparisonCache[key].Message
       /\ (call[c].pc = "fetch" /\ call'[c].pc = "done" /\ call'[c].ret = "nil") =>
             IF call[c].kind = "update"
                THEN ~releaseCache'.isNil /\ lastCacheUpdate' = now
                ELSE /\ comparisonCache'[key].Timestamp = now
                     /\ comparisonCache'[key].Message = call'[c].msg

\* C4, amended: for both caches, once a successful fetch has stored an
\* entry (for the list cache: a non-empty list), every call that finds it
\* within the TTL makes zero upstream calls and reuses the cached payload,
\* and a call that finds it expired makes exactly one upstream call unless
\* another call refreshed it first; if that upstream call succeeds it
\* replaces the payload and the fetch time.
C4_Amended == []C4_Inv /\ [][C4_Step]_vars

\* one call reused a fresh entry and another refetched an expired one
C4_Witness ==
    \E c, d \in Callers :
       /\ call[c].pc = "done" /\ call[c].saw = "expired"
       /\ call[c].fetched = 1 /\ call[c].ret = "nil"
       /\ call[d].pc = "done" /\ call[d].saw = "fresh" /\ call[d].fetched = 0

\* ------------------------------------------------------------------------
\* Properties of the modal sessions
\* ------------------------------------------------------------------------

\* the custom_ids of a field list
IDsOf(fields) == {fields[i].CustomID : i \in 1..Len(fields)}

\* the labels of the fields with these custom_ids
LabelsOf(fields, ids) ==
    {fields[i].Label : i \in {j \in 1..Len(fields) : fields[j].CustomID \in ids}}

\* the labels of a field list are pairwise distinct
DistinctLabels(fields) ==
    \A i, j \in 1..Len(fields) : fields[i].Label = fields[j].Label => i = j

\* the fields configured for the bug command, the one with multi-page forms
BugFields == modalConfig[Bug].Fields

\* the last handler step merged a submission into a session of N > 5
\* fields and, with it, the values of all N fields have been submitted
MergedLastValue ==
    /\ lastRun.handler \in {"submit", "continuation"}
    /\ lastRun.found
    /\ lastRun.merged # {}
    /\ lastRun.key \in DOMAIN modalStates
    /\ Len(modalStates[lastRun.key].AllFields) > 5
    /\ LogOf(sessionLog, lastRun.key).ids = IDsOf(modalStates[lastRun.key].AllFields)

\* C5: in a multi-page session (N > 5 fields, whatever their labels), the
\* handler that merges the last of the N values finds the session complete,
\* calls CreateIssue and offers no further Continue button.
C5_Completion ==
    MergedLastValue =>
        /\ lastRun.called
        /\ lastRun.response.kind # "part"

\* C5 restricted to field lists with pairwise distinct labels
C5_DistinctLabels ==
    (MergedLastValue /\ DistinctLabels(BugFields)) =>
        /\ lastRun.called
        /\ lastRun.response.kind # "part"

\* the number of values collected in the session stored under key k
Collected(k) == Cardinality(DOMAIN modalStates[k].SubmittedValues)

\* the last handler step merged a submission into the session of a form
\* whose N fields fill two pages
TwoPageMerge(handler) ==
    /\ lastRun.handler = handler
    /\ lastRun.found
    /\ lastRun.key \in DOMAIN modalStates
    /\ Len(modalStates[lastRun.key].AllFields) \in 6..10

\* the first page has been submitted, and nothing else since the session
\* was created
C6_FirstSubmission ==
    LET fields == modalStates[lastRun.key].AllFields IN
    (/\ TwoPageMerge("submit")
     /\ lastRun.merged = IDsOf(FirstPage(fields))
     /\ LogOf(sessionLog, lastRun.key).ids = lastRun.merged)
    => /\ Collected(lastRun.key) = 5
       /\ lastRun.response.kind = "part"
       /\ lastRun.response.part = 1
       /\ lastRun.response.total = 2
       /\ lastRun.response.button = ContinueButtonID(lastRun.key)
       /\ ~lastRun.called

\* the second page, with the remaining N - 5 fields, has been submitted after
\* the first
C6_ContinuationSubmission ==
    LET fields == modalStates[lastRun.key].AllFields IN
    (/\ TwoPageMerge("continuation")
     /\ lastRun.merged = IDsOf(SubSeq(fields, 6, Len(fields)))
     /\ LogOf(sessionLog, lastRun.key).ids = IDsOf(fields))
    => /\ lastRun.called
       /\ Cardinality(lastRun.issue.body.blocks) = Len(fields)
       /\ {b[1] : b \in lastRun.issue.body.blocks} = LabelsOf(fields, IDsOf(fields))
       /\ lastRun.issue.body.footer = <<Username(lastRun.user), lastRun.user>>

\* the step in which run r of a multi-page path, back from CreateIssue,
\* sends its answer
Answers(r) ==
    /\ runs[r].pc = "creating"
    /\ runs[r].path \in {"submit", "continuation"}
    /\ runs'[r].pc = "answered"

\* the step in which run r of a multi-page path, its answer sent, deletes
\* the session and returns
Returns(r) ==
    /\ runs[r].pc = "answered"
    /\ runs'[r].pc = "idle"

\* when a run of the multi-page paths that called CreateIssue returns, the
\* session is absent from the store
C6_SessionRemoved ==
    \A r \in Runs :
        Returns(r) => runs[r].key \notin DOMAIN modalStates'

\* C6: end-to-end two-page flow for N fields, 6 <= N <= 10: the first
\* submission leaves 5 collected values and answers "Part 1 of 2 complete"
\* with a Continue button; the continuation submission makes the handler
\* call CreateIssue with a body of N blocks and the footer of the submitting
\* user; afterwards the session is absent from the store.
C6_TwoPageFlow ==
    /\ [](C6_FirstSubmission /\ C6_ContinuationSubmission)
    /\ [][C6_SessionRemoved]_vars

\* the two-page flow for field lists with pairwise distinct labels
C6_DistinctLabels ==
    /\ [](DistinctLabels(BugFields) =>
             (C6_FirstSubmission /\ C6_ContinuationSubmission))
    /\ [][C6_SessionRemoved]_vars

\* C7: every stored session has at most as many collected values as fields,
\* and a handler that merged a submission treats the session as complete
\* (calls CreateIssue instead of offering a page) exactly when the two
\* numbers are equal.
C7_CollectedAtMostFields ==
    /\ \A k \in DOMAIN modalStates :
          Collected(k) <= Len(modalStates[k].AllFields)
    /\ (/\ lastRun.handler \in {"submit", "continuation"}
        /\ lastRun.found)
       => /\ lastRun.key \in DOMAIN modalStates
          /\ lastRun.called <=>
                (Collected(lastRun.key) = Len(modalStates[lastRun.key].AllFields))
          /\ lastRun.called <=> (lastRun.response.kind # "part")

\* while the template has not been edited since the bot started, every stored
\* session has at most as many collected values as fields and is treated as
\* complete exactly when the two numbers are equal
C7_UneditedTemplate == (edits = 0) => C7_CollectedAtMostFields

\* a handler found a session complete, and another was offered a further page
C7_Witness ==
    /\ lastRun.handler = "continuation"
    /\ lastRun.found
    /\ lastRun.called
    /\ Collected(lastRun.key) = Len(modalStates[lastRun.key].AllFields)
    /\ Len(modalStates[lastRun.key].AllFields) = 7

\* the names under which the values of these text inputs are kept in a
\* session with these fields: the label of the field with the custom_id, and
\* the custom_id itself when the session has no such field
StoredUnder(fields, ids) == {FieldLabel(fields, id) : id \in ids}

\* the store holds a session under k exactly when the last write to k was a
\* create, and the session holds the values merged since that create
C8_Inv ==
    \A k \in DOMAIN modalStates \cup DOMAIN sessionLog :
        /\ (k \in DOMAIN modalStates) <=> (LogOf(sessionLog, k).op = "create")
        /\ k \in DOMAIN modalStates =>
              DOMAIN modalStates[k].SubmittedValues =
                 StoredUnder(modalStates[k].AllFields, LogOf(sessionLog, k).ids)

\* a lookup finds a session exactly when the last write to the key was a
\* create, and a command's create and a handler's delete take effect
C8_Step ==
    /\ lastRun'.looked =>
          (lastRun'.found <=> (LogOf(sessionLog, lastRun'.key).op = "create"))
    /\ (lastRun'.handler = "command" /\ modalStates' # modalStates) =>
          /\ lastRun'.key \in DOMAIN modalStates'
          /\ modalStates'[lastRun'.key].SubmittedValues = EmptyMap
    /\ \A r \in Runs :
          Returns(r) => LogOf(sessionLog', runs[r].key).op = "delete"

\* C8: session store lifecycle: a lookup after create returns the created
\* session, a lookup after delete reports not-found, and create on a key that
\* holds a session replaces it, so that the earlier collected values cannot be
\* reached by a later lookup.
C8_StoreLifecycle == []C8_Inv /\ [][C8_Step]_vars

\* a session with collected values was replaced by a new command invocation,
\* and a Continue click then found the new, empty session
C8_Witness ==
    /\ interactions = 4
    /\ lastRun.handler = "click"
    /\ lastRun.found
    /\ lastRun.key \in DOMAIN modalStates
    /\ modalStates[lastRun.key].SubmittedValues = EmptyMap
    /\ \E b \in buttons : b.CustomID = ContinueButtonID(lastRun.key)

\* CreateIssue failed for a complete multi-page session: the failure message
\* is sent, the session is removed and no second call is made
C9_FailStep ==
    \A r \in Runs :
        /\ (Answers(r) /\ ~runs'[r].ok)
              => /\ lastRun'.response.kind = "failed"
                 /\ issueCalls' = issueCalls
        /\ (Returns(r) /\ ~runs[r].ok)
              => /\ runs[r].key \notin DOMAIN modalStates'
                 /\ LogOf(sessionLog', runs[r].key).failed
                 /\ issueCalls' = issueCalls

\* a Continue click or a continuation submission for a key
IsContinue(run) == run.handler \in {"click", "continuation"}

\* C9 as stated: after the failure, any later Continue click or continuation
\* submission for that key gets the session-expired response.
C9_Original ==
    [][/\ C9_FailStep
       /\ (IsContinue(lastRun') /\ LogOf(sessionLog, lastRun'.key).failed)
             => lastRun'.response.kind = "expired"]_vars

\* C9, amended: when CreateIssue fails for a complete multi-page session the
\* handler sends the failure message, removes the session and makes no second
\* call; later Continue clicks and continuation submissions for that key get
\* the session-expired response until a new command invocation stores a
\* session under that key.
C9_Amended ==
    [][/\ C9_FailStep
       /\ (/\ IsContinue(lastRun')
           /\ LogOf(sessionLog, lastRun'.key).failed
           /\ LogOf(sessionLog, lastRun'.key).op = "delete")
             => lastRun'.response.kind = "expired"]_vars

\* after a failed CreateIssue, the Continue button of the removed session was
\* clicked and answered with session-expired
C9_Witness ==
    /\ lastRun.handler = "click"
    /\ lastRun.response.kind = "expired"
    /\ LogOf(sessionLog, lastRun.key).failed
    /\ LogOf(sessionLog, lastRun.key).op = "delete"
    /\ issueCalls = 1

\* C10: a Continue click or continuation submission whose session key is not
\* in the store gets the session-expired response, makes no upstream call and
\* leaves the store unchanged.
C10_UnknownSession ==
    [][(IsContinue(lastRun') /\ lastRun'.key \notin DOMAIN modalStates)
          => /\ lastRun'.response.kind = "expired"
             /\ ~lastRun'.called
             /\ issueCalls' = issueCalls
             /\ runs' = runs
             /\ modalStates' = modalStates]_vars

\* a continuation form was submitted after its session had been completed
\* and removed
C10_Witness ==
    /\ lastRun.handler = "continuation"
    /\ lastRun.looked
    /\ ~lastRun.found
    /\ lastRun.response.kind = "expired"
    /\ lastRun.key \notin DOMAIN modalStates
    /\ ~LogOf(sessionLog, lastRun.key).failed

\* ------------------------------------------------------------------------
\* Properties of the accesses to the session store map
\* ------------------------------------------------------------------------

\* C11: handlers that run concurrently are never inside the session store
\* map at the same time with at least one of them writing (every lookup,
\* insert and delete holds a mutual-exclusion lock).
C11_ExclusiveAccess == ~Race

\* C12: whatever the interactions and the collaborators' outcomes,
\* HandleInteraction returns normally; no handler run ends in a fault that
\* terminates the process.
C12_NoFault == ~crashed

\* ------------------------------------------------------------------------
\* Properties of the pages and of the routing of form submissions
\* ------------------------------------------------------------------------

\* the custom_ids of the p-th slice of five of a field list (p = 0 first)
SliceIDs(fields, p) ==
    PageIDs(SubSeq(fields, 5 * p + 1,
                   IF 5 * p + 5 > Len(fields) THEN Len(fields) ELSE 5 * p + 5))

\* the page a command shows is the first slice of the field list
C13_FirstPage ==
    (/\ lastRun.handler = "show"
     /\ lastRun.response.kind = "modal")
    => /\ \E fields \in FieldLists \cup TemplateVersions :
             lastRun.page = SliceIDs(fields, 0)
       /\ Len(lastRun.page) \in 1..5

\* the page a Continue click shows holds 1 to 5 fields, is one of the later
\* slices of five, and shares no field with the pages submitted before
C13_NextPage ==
    (/\ lastRun.handler = "click"
     /\ lastRun.found)
    => LET fields == modalStates[lastRun.key].AllFields IN
       /\ Len(lastRun.page) \in 1..5
       /\ \E p \in 1..(TotalParts(Len(fields)) - 1) :
             lastRun.page = SliceIDs(fields, p)
       /\ {lastRun.page[i] : i \in 1..Len(lastRun.page)}
             \cap LogOf(sessionLog, lastRun.key).ids = {}

\* C13: chunking: the pages shown for a session of N fields (the first by
\* GetModel, the later ones by handleButtonClick from the collected count)
\* hold 1 to 5 fields each and are the consecutive, non-overlapping slices of
\* the field list, ceil(N/5) in number and N fields in sum.
C13_Chunking == C13_FirstPage /\ C13_NextPage

\* the step was the handling of a modal submission
IsSubmission(run) == run.handler \in {"drop", "submit", "continuation", "legacy"}

\* the underscore-separated segments of the submitted form's identifier
Segments(run) == Split(run.customID, Underscore)

\* C14: every form submission whose identifier has "continue" as its second
\* segment is routed to the continuation path; it never reaches the
\* first-page merge path or the legacy path and creates no issue outside a
\* session.
C14_ContinueRouted ==
    (/\ IsSubmission(lastRun)
     /\ Len(Segments(lastRun)) >= 2
     /\ Segments(lastRun)[2] = ContinueTag)
    => /\ lastRun.handler = "continuation"
       /\ lastRun.called => lastRun.found

\* the handling of a submission whose second segment is not "continue"
C15_Step ==
    (/\ IsSubmission(lastRun')
     /\ Len(Segments(lastRun')) >= 2
     /\ Segments(lastRun')[2] # ContinueTag)
    => LET stateKey == Segments(lastRun')[2] \o <<Underscore>> \o lastRun'.channel
                          \o <<Underscore>> \o lastRun'.user
       IN /\ lastRun'.key = stateKey
          /\ lastRun'.looked
          /\ stateKey \in DOMAIN modalStates =>
                /\ lastRun'.handler = "submit"
                /\ lastRun'.found
                /\ stateKey \in DOMAIN modalStates'
                /\ LabelsOf(modalStates[stateKey].AllFields, lastRun'.merged)
                      \subseteq DOMAIN modalStates'[stateKey].SubmittedValues
          /\ stateKey \notin DOMAIN modalStates =>
                /\ lastRun'.handler = "legacy"
                /\ ~lastRun'.found
                /\ lastRun'.called
                /\ \E t \in Texts \cup {""} :
                      lastRun'.issue.body =
                         [blocks |-> {<<"description", t>>},
                          footer |-> <<Username(lastRun'.user), lastRun'.user>>]
                /\ modalStates' = modalStates
                /\ sessionLog' = sessionLog

\* the legacy path leaves the store alone when CreateIssue returns
C15_LegacyReturn ==
    \A r \in Runs :
        (/\ runs[r].pc = "creating"
         /\ runs[r].path = "legacy"
         /\ runs'[r].pc = "idle")
        => modalStates' = modalStates

\* C15: a non-continuation form submission is routed by the presence of a
\* session under command_channelID_userID: with a session the values are
\* merged into it; without one the legacy path builds the issue from the
\* submitted fields and neither reads nor writes the session store.
C15_RoutedBySession == [][C15_Step /\ C15_LegacyReturn]_vars

\* a single-page form went the legacy path while another session was stored
C15_Witness ==
    /\ lastRun.handler = "legacy"
    /\ lastRun.called
    /\ Segments(lastRun)[2] = Feature
    /\ modalStates # EmptyMap

\* C16: a form submission whose identifier has fewer than 2 segments is
\* dropped: no response, no session read, created, changed or deleted, and
\* no upstream call.
C16_MalformedDropped ==
    [][(IsSubmission(lastRun') /\ Len(Segments(lastRun')) < 2)
          => /\ lastRun'.response.kind = "none"
             /\ ~lastRun'.looked
             /\ ~lastRun'.called
             /\ modalStates' = modalStates
             /\ sessionLog' = sessionLog
             /\ issueCalls' = issueCalls
             /\ runs' = runs
             /\ buttons' = buttons
             /\ forms' = forms]_vars

\* a one-segment identifier was submitted while a session was stored
C16_Witness ==
    /\ lastRun.handler = "drop"
    /\ lastRun.customID = ModalTag
    /\ modalStates # EmptyMap

\* C17: whenever handleBug or handleFeature answers with the "not configured
\* for this channel" message, no session has been created or replaced: the
\* session store is the same as before the command.
C17_NotConfiguredNoSession ==
    [][/\ (/\ lastRun'.handler = "command"
           /\ lastRun'.response.kind = "not_configured")
             => modalStates' = modalStates
       /\ \A run \in pending :
             (/\ run \notin pending'
              /\ lastRun'.handler = "show"
              /\ lastRun'.response.kind = "not_configured")
                => ~run.stored]_vars

\* ------------------------------------------------------------------------
\* Properties of truncatePlaceholder
\* ------------------------------------------------------------------------

\* C18: for every text s the result of truncatePlaceholder has length at
\* most 100, equals s when len(s) <= 100 and equals the first 97 bytes of s
\* followed by "..." otherwise; applying it twice gives the same result as
\* applying it once.
C18_Truncate ==
    /\ applied >= 1 =>
          /\ Len(truncated[1]) <= 100
          /\ Len(placeholder) <= 100 => truncated[1] = placeholder
          /\ Len(placeholder) > 100 =>
                /\ Len(truncated[1]) = 100
                /\ \A i \in 1..97 : truncated[1][i] = placeholder[i]
                /\ \A i \in 98..100 : truncated[1][i] = "."
    /\ applied = 2 => truncated[2] = truncated[1]

\* a text longer than the limit went through the function twice
C18_Witness ==
    /\ applied = 2
    /\ Len(placeholder) > 100
    /\ placeholder[97] # "."
    /\ Len(truncated[2]) = 100

\* ------------------------------------------------------------------------
\* Properties of the changelog command
\* ------------------------------------------------------------------------

\* the entry under key k differs before and after the step
EntryChanged(k) ==
    \/ (k \in DOMAIN comparisonCache) # (k \in DOMAIN comparisonCache')
    \/ /\ k \in DOMAIN comparisonCache
       /\ k \in DOMAIN comparisonCache'
       /\ comparisonCache[k] # comparisonCache'[k]

\* an entry changes only in the step in which a call for its own key
\* returns from a successful fetch
C19_Step ==
    \A k \in DOMAIN comparisonCache \cup DOMAIN comparisonCache' :
        EntryChanged(k) =>
            \E c \in Callers :
                /\ call[c].kind = "changelog"
                /\ call[c].pc = "fetch"
                /\ call'[c].pc = "done"
                /\ call'[c].ret = "nil"
                /\ k = CacheKey(call[c].base, call[c].head)
                /\ k \in DOMAIN comparisonCache'

\* the callers that have made a call
Requesters == {c \in Callers : call[c].pc # "idle"}

\* the keys the callers asked for
RequestedKeys == {CacheKey(call[c].base, call[c].head) : c \in Requesters}

\* two calls have been made and have returned, for two distinct keys, each
\* finding no entry under its key, and no fetch failed
C19_ColdCalls ==
    /\ workload = "comparisons"
    /\ started = 2
    /\ Cardinality(Requesters) = 2
    /\ Cardinality(RequestedKeys) = 2
    /\ \A c \in Requesters : call[c].pc = "done" /\ call[c].saw = "cold"
    /\ compareLog.errs = 0

\* two distinct keys on a cold cache: two upstream calls, two entries
C19_Inv ==
    C19_ColdCalls =>
        /\ compareLog.calls = 2
        /\ DOMAIN comparisonCache = RequestedKeys

\* C19: getChangelogMessage(base, head) reads and writes only the entry under
\* "base...head": a hit, a miss, a refresh or a failed fetch for one key
\* never changes the entry of another key, and two distinct keys requested on
\* a cold cache cause exactly two upstream calls and leave two entries.
C19_PerKey == []C19_Inv /\ [][C19_Step]_vars

\* two distinct keys were requested on a cold cache
C19_Witness ==
    /\ C19_ColdCalls
    /\ compareLog.calls = 2
    /\ Cardinality(DOMAIN comparisonCache) = 2

\* the responses of one handleChangelog run, as far as it has come
C20_Responses(c) ==
    LET r == call[c].responses IN
    IF call[c].base = << >> \/ call[c].head = << >>
       THEN /\ Len(r) = 1
            /\ r[1].kind = "message"
            /\ r[1].text = "Please provide both base and head versions."
            /\ call[c].fetched = 0
            /\ call[c].saw = "none"
       ELSE /\ Len(r) \in 1..2
            /\ r[1].kind = "deferred"
            /\ call[c].pc # "done" => Len(r) = 1
            /\ Len(r) = 2 =>
                  /\ r[2].kind = "edit"
                  /\ r[2].base = call[c].base
                  /\ r[2].head = call[c].head
                  /\ call[c].ret = "nil" =>
                        /\ r[2].text = "changelog"
                        /\ r[2].total = call[c].msg.total
                        /\ call[c].msg.base = call[c].base
                        /\ call[c].msg.head = call[c].head
                  /\ call[c].ret = "err" =>
                        r[2].text = "Failed to compare versions: "

\* an edit is the last thing a run sends
C20_EditIsLast ==
    \A c \in Callers :
        (call[c].kind = "changelog" /\ Len(call[c].responses) = 2
           /\ call'[c].kind = "changelog" /\ call'[c].base = call[c].base
           /\ call'[c].head = call[c].head /\ Len(call'[c].responses) >= 2)
        => call'[c].responses = call[c].responses

\* a run that got its answer from getChangelogMessage does nothing else
\* before it sends the edit
C20_EditIsNext ==
    \A c \in Callers :
        EditPending(c) =>
            \/ call'[c] = call[c]
            \/ /\ Len(call'[c].responses) = 2
               /\ call'[c].responses[1] = call[c].responses[1]
               /\ call'[c].base = call[c].base
               /\ call'[c].head = call[c].head

\* C20: handleChangelog with base and head non-empty sends the deferred
\* response first and then exactly one edit (the changelog, or "Failed to
\* compare versions: base...head" on an upstream error); with base or head
\* missing or empty it sends one ephemeral validation message, no deferred
\* response, and makes no CompareCommits call.
C20_HandleChangelog ==
    /\ [](workload = "changelog" =>
             \A c \in Callers : call[c].kind = "changelog" => C20_Responses(c))
    /\ [][C20_EditIsLast /\ C20_EditIsNext]_vars

\* one run was rejected for a missing version, another got the
\* failed-to-compare edit after its deferred response
C20_Witness ==
    /\ workload = "changelog"
    /\ \E c, d \in Callers :
          /\ call[c].responses = <<ValidationMessage>>
          /\ call[c].head = << >>
          /\ Len(call[d].responses) = 2
          /\ call[d].ret = "err"

\* ------------------------------------------------------------------------
\* Properties of the autocomplete choices
\* ------------------------------------------------------------------------

\* the lower-cased value of the first focused option, "" without one
FocusedInput ==
    LET focused == {i \in 1..Len(givenOptions) : givenOptions[i].Focused} IN
    IF focused = {} THEN << >>
    ELSE LET first == CHOOSE i \in focused : \A j \in focused : i <= j
         IN [k \in 1..Len(givenOptions[first].Value) |->
                LowerChar(givenOptions[first].Value[k])]

\* tag and input agree at offset j when letter case is ignored
AgreeAt(tag, input, j) ==
    \A k \in 1..Len(input) : LowerChar(tag[j + k]) = input[k]

\* the positions of the cached releases whose tag name contains the input
Matching ==
    {i \in 1..Len(cachedTags) :
        \E j \in 0..(Len(cachedTags[i]) - Len(FocusedInput)) :
           AgreeAt(cachedTags[i], FocusedInput, j)}

\* the position of the r-th matching release
NthMatching(r) ==
    CHOOSE i \in Matching : Cardinality({j \in Matching : j <= i}) = r

\* C21: handleChangelogAutocomplete returns at most 25 choices: in cache
\* order, the first releases whose tag name contains the focused input
\* compared case-insensitively; with an empty input or no focused option the
\* first min(25, n) of the n cached releases.
C21_Choices ==
    responded =>
        /\ Len(sentChoices) <= ChoiceLimit
        /\ Len(sentChoices) = IF Cardinality(Matching) < ChoiceLimit
                                 THEN Cardinality(Matching) ELSE ChoiceLimit
        /\ \A r \in 1..Len(sentChoices) : sentChoices[r] = cachedTags[NthMatching(r)]
        /\ FocusedInput = << >> =>
              sentChoices = SubSeq(cachedTags, 1,
                               IF Len(cachedTags) < ChoiceLimit
                                  THEN Len(cachedTags) ELSE ChoiceLimit)

\* more than 25 cached releases match an upper-case input and the first 25
\* were sent
C21_Witness ==
    /\ responded
    /\ Len(cachedTags) > ChoiceLimit
    /\ Cardinality(Matching) > ChoiceLimit
    /\ FocusedInput = <<"v">>
    /\ givenOptions[1].Value = <<"V">>
    /\ Len(sentChoices) = ChoiceLimit
    /\ \E i \in 1..Len(cachedTags) : cachedTags[i][1] = "V"

\* ------------------------------------------------------------------------
\* Properties of the identifiers
\* ------------------------------------------------------------------------

\* C22: for every session key k = command_channelID_userID, the key
\* handleButtonClick recovers from "continue_" + k and the key
\* handleModalSubmit recovers from "modal_continue_" + k are both exactly k.
C22_RoundTrip ==
    /\ recovered.button \in {<<"pending">>, issued}
    /\ recovered.form \in {<<"pending">>, issued}

\* both handlers recovered a key with multi-digit IDs
C22_Witness ==
    /\ issued = StateKey(Feature, <<"7", "0", "7">>, <<"1", "2", "3", "4", "5">>)
    /\ recovered.button = issued
    /\ recovered.form = issued

\* ------------------------------------------------------------------------
\* Properties of the upstream calls
\* ------------------------------------------------------------------------

\* the call of c passes the second check and calls the upstream
FetchStarts(c) == call[c].pc = "lock" /\ call'[c].pc = "fetch"

\* the entry a call of c is about is absent, empty or at least TTL old
EntryStale(c) ==
    IF call[c].kind = "update"
       THEN \/ Len(releaseCache.items) = 0
            \/ now - lastCacheUpdate >= ReleaseCacheTTL
       ELSE LET k == CacheKey(call[c].base, call[c].head) IN
            \/ k \notin DOMAIN comparisonCache
            \/ now - comparisonCache[k].Timestamp >= ComparisonCacheTTL

\* an upstream call is counted only in a step in which a call starts its fetch
C23_CountedFetch ==
    /\ releasesLog'.calls # releasesLog.calls =>
          \E c \in Callers : FetchStarts(c) /\ call[c].kind = "update"
    /\ compareLog'.calls # compareLog.calls =>
          \E c \in Callers : FetchStarts(c) /\ call[c].kind = "changelog"

\* a fetch starts holding the write lock alone, on a stale entry
C23_Step ==
    \A c \in Callers :
       FetchStarts(c) =>
          /\ EntryStale(c)
          /\ IF call[c].kind = "update"
                THEN /\ releaseCacheMutex.writer = NoWriter
                     /\ releaseCacheMutex.readers = {}
                     /\ releaseCacheMutex'.writer = c
                ELSE /\ comparisonCacheMutex.writer = NoWriter
                     /\ comparisonCacheMutex.readers = {}
                     /\ comparisonCacheMutex'.writer = c

\* C23: no upstream fetch is ever started while the cache is fresh: when
\* updateReleaseCache calls GetReleases, or getChangelogMessage calls
\* CompareCommits for key k, the entry concerned is absent, empty or older
\* than the TTL, as re-checked after the write lock was acquired.
C23_NoFetchWhileFresh == [][C23_Step /\ C23_CountedFetch]_vars

\* a call that found the list cache cold returned from the second check
\* without fetching, and a later call is fetching for the expired list
C23_Witness ==
    /\ workload = "releases"
    /\ \E c, d \in Callers :
          /\ call[c].pc = "fetch" /\ call[c].saw = "expired"
          /\ Len(releaseCache.items) > 0
          /\ call[d].pc = "done" /\ call[d].saw = "cold"
          /\ call[d].fetched = 0 /\ call[d].ret = "nil"

\* ------------------------------------------------------------------------
\* Properties of calls after a failed fetch
\* ------------------------------------------------------------------------

\* the last upstream call for the entry of c's call has failed
AfterFailure(c) ==
    IF call[c].kind = "update" THEN releasesLog.failed
    ELSE CacheKey(call[c].base, call[c].head) \in compareLog.failed

\* the call of c takes the write lock and makes the second check
SecondCheck(c) == call[c].pc = "lock" /\ call'[c].pc # "lock"

\* the upstream call of c returns successfully
FetchSucceeds(c) ==
    call[c].pc = "fetch" /\ call'[c].pc = "done" /\ call'[c].ret = "nil"

\* after the step the entry of c's call passes the freshness check
FreshAfter(c) ==
    IF call[c].kind = "update"
       THEN now' - lastCacheUpdate' < ReleaseCacheTTL /\ Len(releaseCache'.items) > 0
       ELSE LET k == CacheKey(call[c].base, call[c].head) IN
            /\ k \in DOMAIN comparisonCache'
            /\ now' - comparisonCache'[k].Timestamp < ComparisonCacheTTL

\* after the step the cache holds what the upstream call of c returned,
\* with the time of the step
StoredAfter(c) ==
    IF call[c].kind = "update"
       THEN ~releaseCache'.isNil /\ lastCacheUpdate' = now
       ELSE LET k == CacheKey(call[c].base, call[c].head) IN
            /\ k \in DOMAIN comparisonCache'
            /\ comparisonCache'[k].Message = call'[c].msg
            /\ comparisonCache'[k].Timestamp = now

\* while the last upstream call for an entry has failed, the entry is stale
C24_Inv ==
    /\ releasesLog.failed =>
          Len(releaseCache.items) = 0 \/ now - lastCacheUpdate >= ReleaseCacheTTL
    /\ \A k \in compareLog.failed :
          k \notin DOMAIN comparisonCache
             \/ now - comparisonCache[k].Timestamp >= ComparisonCacheTTL

\* the first call to make the second check after a failure calls the upstream
C24_Retry ==
    \A c \in Callers :
       (AfterFailure(c) /\ SecondCheck(c)) =>
          /\ call'[c].pc = "fetch"
          /\ call'[c].fetched = call[c].fetched + 1

\* C24 as stated: the first call after a failed one calls the upstream
\* again, and if that call succeeds the cache holds the new payload and is
\* fresh.
C24_Original ==
    [][/\ C24_Retry
       /\ \A c \in Callers :
             (AfterFailure(c) /\ FetchSucceeds(c)) => StoredAfter(c) /\ FreshAfter(c)]_vars

\* C24, amended: a failed fetch leaves the entry stale, so the first call to
\* make the second check after it calls the upstream again; if that call
\* succeeds the cache holds the new payload with the time of the fetch, and
\* it passes the freshness check unless the payload is an empty release list.
C24_Amended ==
    /\ []C24_Inv
    /\ [][/\ C24_Retry
          /\ \A c \in Callers :
                (AfterFailure(c) /\ FetchSucceeds(c)) =>
                   /\ StoredAfter(c)
                   /\ FreshAfter(c) <=>
                         ~(call[c].kind = "update" /\ Len(releaseCache'.items) = 0)]_vars

\* a call failed on an expired list, and the next upstream call succeeded
\* with a non-empty list
C24_Witness ==
    /\ workload = "releases"
    /\ ~releasesLog.failed
    /\ releasesLog.errs = 1
    /\ releasesLog.calls = 3
    /\ \E c, d \in Callers :
          /\ call[c].pc = "done" /\ call[c].ret = "err" /\ call[c].saw = "expired"
          /\ call[d].pc = "done" /\ call[d].ret = "nil" /\ call[d].fetched = 1
          /\ call[d].saw = "expired"
    /\ Len(releaseCache.items) > 0
    /\ lastCacheUpdate = now

\* ------------------------------------------------------------------------
\* Properties of an empty release list
\* ------------------------------------------------------------------------

\* GetReleases returns an empty list to the call of c
EmptyFetched(c) ==
    /\ call[c].pc = "fetch" /\ call[c].kind = "update"
    /\ releasesLog'.empties = releasesLog.empties + 1

\* the list cache holds a stored empty list that is younger than the TTL
EmptyWithinTTL ==
    /\ ~releaseCache.isNil
    /\ Len(releaseCache.items) = 0
    /\ now - lastCacheUpdate < ReleaseCacheTTL

\* the empty list is stored with the fetch time and nil is returned; while it
\* is in the cache within the TTL both checks send a call to GetReleases
C25_Step ==
    \A c \in Callers :
       /\ EmptyFetched(c) =>
             /\ call'[c].pc = "done" /\ call'[c].ret = "nil"
             /\ releaseCache' = [isNil |-> FALSE, items |-> << >>]
             /\ lastCacheUpdate' = now
       /\ (EmptyWithinTTL /\ call[c].kind = "update") =>
             /\ (call[c].pc = "check1" /\ call'[c].pc # "check1") =>
                   call'[c].pc = "lock" /\ call'[c].saw = "empty"
             /\ (call[c].pc = "lock" /\ call'[c].pc # "lock") =>
                   /\ call'[c].pc = "fetch"
                   /\ releasesLog'.calls = releasesLog.calls + 1

\* a call that found the stored empty list within the TTL has called
\* GetReleases, unless a non-empty list arrived before its second check
C25_Inv ==
    \A c \in Callers :
       (call[c].pc = "done" /\ call[c].saw = "empty") =>
          \/ call[c].fetched = 1
          \/ /\ call[c].fetched = 0
             /\ call[c].ret = "nil"
             /\ releasesLog.empties < SuccessfulFetches

\* C25: when GetReleases succeeds with an empty list, updateReleaseCache
\* returns no error, stores the non-nil empty list and records the fetch
\* time; every later call within the TTL calls GetReleases again until a
\* non-empty list is returned.
C25_EmptyList == []C25_Inv /\ [][C25_Step]_vars

\* an empty list was stored, and a call that found it within the TTL fetched
\* again and got a non-empty list
C25_Witness ==
    /\ releasesLog.empties = 1
    /\ releasesLog.calls = 2
    /\ releasesLog.errs = 0
    /\ \E c \in Callers :
          /\ call[c].pc = "done" /\ call[c].saw = "empty"
          /\ call[c].fetched = 1 /\ call[c].ret = "nil"
    /\ Len(releaseCache.items) > 0

\* ------------------------------------------------------------------------
\* Properties of the autocomplete handler
\* ------------------------------------------------------------------------

\* the lower-cased value of the first focused option among the options
LoweredFocus(options) ==
    LET focused == {i \in 1..Len(options) : options[i].Focused} IN
    IF focused = {} THEN << >>
    ELSE LET first == CHOOSE i \in focused : \A j \in focused : i <= j
         IN [k \in 1..Len(options[first].Value) |-> LowerChar(options[first].Value[k])]

\* the tag contains the input when letter case is ignored
ContainsFolded(tag, input) ==
    \E j \in 0..(Len(tag) - Len(input)) : AgreeAt(tag, input, j)

\* the choices a list of at most 25 releases gives for the options
RECURSIVE ChoicesOf(_, _)
ChoicesOf(items, options) ==
    IF Len(items) = 0 THEN << >>
    ELSE (IF ContainsFolded(Head(items), LoweredFocus(options))
             THEN <<Head(items)>> ELSE << >>)
         \o ChoicesOf(Tail(items), options)

\* the handler run of c sends its response
Responds(c) ==
    /\ call[c].handler = "autocomplete"
    /\ Len(call'[c].responses) > Len(call[c].responses)

\* the goroutine c leaves its handler run for a new one
Leaves(c) ==
    /\ call[c].handler = "autocomplete"
    /\ call[c].pc = "done"
    /\ call'[c].pc = "check1"

\* the response is the only one of its run and carries the choices of the
\* list the cache holds in that step, whether or not the refresh failed;
\* no run ends without its response
C26_Step ==
    \A c \in Callers :
       /\ Responds(c) =>
             /\ call[c].pc = "respond" /\ call[c].ret \in {"nil", "err"}
             /\ call[c].responses = << >>
             /\ Len(call'[c].responses) = 1
             /\ call'[c].responses[1].kind = "autocomplete"
             /\ call'[c].responses[1].choices =
                   ChoicesOf(releaseCache.items, call[c].options)
             /\ Len(releaseCache.items) = 0 => call'[c].responses[1].choices = << >>
             /\ UNCHANGED <<releaseCache, lastCacheUpdate, releasesLog>>
       /\ Leaves(c) => Len(call[c].responses) = 1

\* a handler run has sent at most one response
C26_Inv ==
    \A c \in Callers :
       call[c].handler = "autocomplete" => Len(call[c].responses) <= 1

\* C26: when the release cache refresh fails, handleChangelogAutocomplete
\* still sends exactly one autocomplete response, built from whatever the
\* list cache holds at that moment: zero choices when the cache is empty,
\* choices from the expired payload when a stale one is present.
C26_RespondsAfterFailure == []C26_Inv /\ [][C26_Step]_vars

\* the refresh of an expired list failed and the response carries choices
\* from the stale payload
C26_Witness ==
    \E c \in Callers :
       /\ call[c].handler = "autocomplete"
       /\ call[c].ret = "err" /\ call[c].saw = "expired"
       /\ Len(call[c].responses) = 1
       /\ call[c].responses[1].choices # << >>
       /\ Len(releaseCache.items) > 0
       /\ now - lastCacheUpdate >= ReleaseCacheTTL

\* ------------------------------------------------------------------------
\* Properties of the Continue button
\* ------------------------------------------------------------------------

\* the step is a Continue click that found its session
ClickFound ==
    /\ interactions' = interactions + 1
    /\ lastRun'.handler = "click"
    /\ lastRun'.found

\* the custom_ids of fields[from + 1 .. min(from + 5, Len(fields))]
IDsFrom(fields, from) ==
    LET to == IF from + 5 < Len(fields) THEN from + 5 ELSE Len(fields)
    IN [i \in 1..(to - from) |-> fields[from + i].CustomID]

\* the click shows the fields after the collected ones under the
\* continuation identifier and leaves the store as it is
C27_Step ==
    ClickFound =>
       LET key == lastRun'.key
           state == modalStates[key]
           c == Cardinality(DOMAIN state.SubmittedValues)
       IN /\ key \in DOMAIN modalStates
          /\ lastRun'.response.kind = "modal"
          /\ lastRun'.page = IDsFrom(state.AllFields, c)
          /\ \E form \in forms' :
                /\ form.CustomID =
                      ModalTag \o <<"_">> \o ContinueTag \o <<"_">> \o key
                /\ form.Components = lastRun'.page
                /\ forms' = forms \cup {form}
          /\ UNCHANGED <<modalStates, sessionLog, buttons, runs, issueCalls>>

\* a click that follows a click on the same button shows the same page
C27_Again ==
    (ClickFound /\ lastRun.handler = "click" /\ lastRun.key = lastRun'.key) =>
       /\ lastRun.found
       /\ lastRun'.page = lastRun.page
       /\ forms' = forms

\* C27: a Continue click for an existing session with c collected values and
\* N fields shows a modal holding exactly the fields AllFields[c : min(c+5, N)],
\* identified as "modal_continue_" + key, and changes nothing in the session
\* or the store; clicking the same button again before submitting shows the
\* same page.
C27_ContinueClick == [][C27_Step /\ C27_Again]_vars

\* a click that finds a session with no more collected values than fields
\* shows the page AllFields[c : min(c+5, N)] and changes nothing, and a
\* repeated click shows the same page
C27_WithinFields ==
    [][(ClickFound =>
           Cardinality(DOMAIN modalStates[lastRun'.key].SubmittedValues)
              <= Len(modalStates[lastRun'.key].AllFields))
          => (C27_Step /\ C27_Again)]_vars

\* after the first page of an 11-field form the button was clicked and the
\* second page of five fields is shown
C27_Witness ==
    /\ lastRun.handler = "click" /\ lastRun.found
    /\ lastRun.key \in DOMAIN modalStates
    /\ Len(modalStates[lastRun.key].AllFields) = 11
    /\ Cardinality(DOMAIN modalStates[lastRun.key].SubmittedValues) = 5
    /\ lastRun.page = <<"f6", "f7", "f8", "f9", "f10">>
    /\ interactions = 4
    /\ Cardinality(forms) = 2
    /\ Cardinality(buttons) = 1

\* ------------------------------------------------------------------------
\* Properties of the removal of sessions
\* ------------------------------------------------------------------------

\* the session under k is gone after the step
Removed(k) == k \in DOMAIN modalStates /\ k \notin DOMAIN modalStates'

\* the session under k is another one after the step: its collected values
\* did not grow out of the old ones
Replaced(k) ==
    /\ k \in DOMAIN modalStates /\ k \in DOMAIN modalStates'
    /\ modalStates'[k] # modalStates[k]
    /\ ~(DOMAIN modalStates[k].SubmittedValues
            \subseteq DOMAIN modalStates'[k].SubmittedValues)

\* a run that called CreateIssue for key k deletes the session and returns
ReturnsFor(r, k) ==
    /\ Returns(r)
    /\ runs[r].key = k

\* the issue of run r was built from the values of the session st
BuiltFrom(r, st) ==
    runs[r].issue.body.blocks =
       {<<l, st.SubmittedValues[l]>> : l \in DOMAIN st.SubmittedValues}

\* a key leaves the store only when CreateIssue returns to a run for that
\* key, and a session is replaced only by a command for its key
C28_KeyLifetime ==
    [][\A k \in DOMAIN modalStates :
          /\ Removed(k) => \E r \in Runs : ReturnsFor(r, k)
          /\ Replaced(k) =>
                /\ lastRun'.handler = "command" /\ lastRun'.key = k
                /\ modalStates'[k].SubmittedValues = EmptyMap]_vars

\* C28: a session leaves the store only in a handler run that called
\* createIssue for it (on success and on failure) or when a new command
\* invocation for the same key replaces it; merges, Continue clicks and
\* lookups never remove a session.
C28_RemovedByOwnRun ==
    [][\A k \in DOMAIN modalStates :
          /\ Removed(k) =>
                \E r \in Runs : ReturnsFor(r, k) /\ BuiltFrom(r, modalStates[k])
          /\ Replaced(k) =>
                /\ lastRun'.handler = "command" /\ lastRun'.key = k
                /\ modalStates'[k].SubmittedValues = EmptyMap]_vars

\* ------------------------------------------------------------------------
\* Sessions created by the commands
\* ------------------------------------------------------------------------

\* this step is a run of handleBug / handleFeature for the command, channel
\* and user that obtained the list of fields of the form
CountsFields(cmd, ch, u) ==
    /\ interactions' = interactions + 1
    /\ lastRun'.handler = "command"
    /\ lastRun'.listed
    /\ lastRun'.key = StateKey(cmd, ch, u)

\* the store after the step holds a session without values for the key,
\* made from the fields of the command, and every other key is as before
StoredAnew(cmd, k) ==
    /\ DOMAIN modalStates' = DOMAIN modalStates \cup {k}
    /\ modalStates'[k].SubmittedValues = EmptyMap
    /\ modalStates'[k].AllFields = modalConfig[cmd].Fields
    /\ modalStates'[k].Command = cmd
    /\ \A other \in DOMAIN modalStates \ {k} :
          modalStates'[other] = modalStates[other]

C29_Step ==
    \A cmd \in Commands, ch \in Channels, u \in Users :
       CountsFields(cmd, ch, u) =>
          IF Len(modalConfig[cmd].Fields) > 5
             THEN StoredAnew(cmd, lastRun'.key)
             ELSE modalStates' = modalStates

\* C29: handleBug and handleFeature store a session without collected
\* values, replacing any session under the key command_channelID_userID,
\* exactly when the list of fields they obtained has more than 5 entries;
\* with 5 or fewer fields they create no session and leave the session
\* stored under the key as it is.
C29_SessionIffManyFields == [][C29_Step]_vars

\* the bug command ran for a single-page form while the session of an
\* earlier, longer version of the form was stored with values
C29_Witness ==
    /\ lastRun.handler = "command"
    /\ lastRun.listed
    /\ \E ch \in Channels, u \in Users :
          lastRun.key = StateKey(Bug, ch, u)
    /\ Len(modalConfig[Bug].Fields) <= 5
    /\ lastRun.key \in DOMAIN modalStates
    /\ modalStates[lastRun.key].SubmittedValues # EmptyMap

\* ------------------------------------------------------------------------
\* Growth of the comparison cache
\* ------------------------------------------------------------------------

\* the entry under key k is as old as the TTL or older
Outlived(k) ==
    /\ k \in DOMAIN comparisonCache
    /\ now - comparisonCache[k].Timestamp >= ComparisonCacheTTL

\* in this step a call for key k returns from a successful fetch
StoresFor(k) ==
    \E c \in Callers :
        /\ call[c].kind = "changelog"
        /\ call[c].pc = "fetch"
        /\ call'[c].pc = "done"
        /\ call'[c].ret = "nil"
        /\ k = call[c].base \o <<".", ".", ".">> \o call[c].head

\* no step takes a key out of the map, and an entry that has outlived the
\* TTL is in the map unchanged after every step but a store for its key
C30_Step ==
    /\ DOMAIN comparisonCache \subseteq DOMAIN comparisonCache'
    /\ \A k \in DOMAIN comparisonCache :
          (Outlived(k) /\ ~StoresFor(k)) =>
              comparisonCache'[k] = comparisonCache[k]
    /\ \A k \in DOMAIN comparisonCache :
          (Outlived(k) /\ StoresFor(k)) =>
              comparisonCache'[k].Timestamp = now

\* C30: the set of keys of the keyed comparison cache never shrinks: no
\* operation removes an entry, and an expired entry stays in the map until a
\* successful fetch for the same key overwrites it.
C30_KeysNeverShrink == [][C30_Step]_vars

\* two entries are in the map, one of them expired and still there after a
\* fetch for its key failed
C30_Witness ==
    /\ Cardinality(DOMAIN comparisonCache) = 2
    /\ \E k \in DOMAIN comparisonCache :
          /\ Outlived(k)
          /\ k \in compareLog.failed

\* ------------------------------------------------------------------------
\* The "Part X of Y complete" message
\* ------------------------------------------------------------------------

\* the least number of pages of 5 that hold n fields
CeilDiv5(n) == CHOOSE q \in 0..n : 5 * q >= n /\ 5 * (q - 1) < n

\* the last handler run answered with "Part X of Y complete"
PartReported == lastRun.response.kind = "part"

\* C31: whenever a handler sends "Part X of Y complete. Click Continue" for
\* a session with c collected values and N fields, X = ceil(c/5),
\* Y = ceil(N/5) and 1 <= X < Y: part 0 is never reported, and the last part
\* is never reported complete while fields remain.
C31_PartNumbers ==
    PartReported =>
        LET state == modalStates[lastRun.key]
            c == Cardinality(DOMAIN state.SubmittedValues)
            N == Len(state.AllFields)
        IN /\ lastRun.response.part = CeilDiv5(c)
           /\ lastRun.response.total = CeilDiv5(N)
           /\ 1 <= lastRun.response.part
           /\ lastRun.response.part < lastRun.response.total

\* ------------------------------------------------------------------------
\* Stored sessions and the page of a Continue click
\* ------------------------------------------------------------------------

\* a handler run is between its CreateIssue call and the delete for key k,
\* or a command run is between the store of the session and its answer
InProcess(k) ==
    \/ \E r \in Runs : runs[r].pc \in {"creating", "answered"} /\ runs[r].key = k
    \/ \E run \in pending : run.key = k

\* a session stored under a key no handler is processing has more than 5
\* fields and fewer collected values than fields
C32_Quiescent ==
    \A k \in DOMAIN modalStates :
        ~InProcess(k) =>
            /\ Len(modalStates[k].AllFields) > 5
            /\ Cardinality(DOMAIN modalStates[k].SubmittedValues)
                  < Len(modalStates[k].AllFields)

\* this step is a Continue click that found its session
ClickOnStored ==
    /\ interactions' = interactions + 1
    /\ lastRun'.handler = "click"
    /\ lastRun'.found

\* the page of a click on a stored session is a non-empty slice of the
\* fields of the session
C32_Click ==
    ClickOnStored =>
        LET state == modalStates[lastRun'.key]
            c == Cardinality(DOMAIN state.SubmittedValues)
            N == Len(state.AllFields)
        IN /\ c < N
           /\ Len(lastRun'.page) >= 1
           /\ \E e \in (c + 1)..N :
                 lastRun'.page =
                    [i \in 1..(e - c) |-> state.AllFields[c + i].CustomID]

\* the stored sessions are as required while no handler processes their key
C32_QuiescentSessions == []C32_Quiescent

\* C32: whenever no handler is in the middle of processing key k, a session
\* stored under k has more than 5 fields and strictly fewer collected values
\* than fields; hence a Continue click on a stored session always computes a
\* non-empty page whose slice bounds lie within the field list.
C32_StoredSessions == []C32_Quiescent /\ [][C32_Click]_vars

\* ------------------------------------------------------------------------
\* CreateIssue calls per session
\* ------------------------------------------------------------------------

\* C33: for one session, createIssue is called at most once over the
\* session's lifetime, also when two submissions that carry the final page
\* for the same key are handled concurrently or the same final submission is
\* delivered twice.
C33_IssueOnce ==
    \A k \in DOMAIN sessionLog : sessionLog[k].calls <= 1

\* ------------------------------------------------------------------------
\* The single-page path
\* ------------------------------------------------------------------------

\* C34: the single-page legacy path is taken only for submissions of forms
\* whose command has at most 5 configured fields: a first-page submission
\* of a multi-page form (more than 5 fields) never creates an issue through
\* the legacy path, whatever has happened to its session in the meantime.
C34_LegacyOnlySinglePage ==
    (lastRun.handler = "legacy" /\ lastRun.called) =>
        \A cmd \in Commands, ch \in Channels :
            lastRun.customID = FirstModalID(cmd, ch) =>
                Len(modalConfig[cmd].Fields) <= 5

\* ------------------------------------------------------------------------
\* Fetches in progress and the pair of list and fetch time
\* ------------------------------------------------------------------------

\* the callers between the start of an upstream call of a cache and the end
\* of the store that follows it
Fetching(kind) ==
    {c \in Callers : call[c].kind = kind /\ call[c].pc \in {"fetch", "stamp"}}

\* the new list is stored and the fetch time is still the old one
ListAhead == \E q \in Callers : call[q].pc = "stamp"

\* at most one fetch per cache, and the list is ahead of its fetch time only
\* while the caller that stores it holds the write lock
C35_Inv ==
    /\ Cardinality(Fetching("update")) <= 1
    /\ Cardinality(Fetching("changelog")) <= 1
    /\ \A q \in Fetching("update") :
          /\ releaseCacheMutex.writer = q
          /\ releaseCacheMutex.readers = {}
    /\ \A q \in Fetching("changelog") :
          /\ comparisonCacheMutex.writer = q
          /\ comparisonCacheMutex.readers = {}

\* in this step caller c reads the list cache under the read lock: the first
\* check of updateReleaseCache, or the loop of the autocomplete handler
ReadsList(c) ==
    \/ /\ call[c].kind = "update"
       /\ call[c].pc = "check1"
       /\ call'[c].pc # "check1"
    \/ /\ ChoicesPending(c)
       /\ Len(call'[c].responses) = 1

\* in this step caller c reads the comparison cache under the read lock
ReadsEntry(c) ==
    /\ call[c].kind = "changelog"
    /\ call[c].pc = "check1"
    /\ call'[c].pc # "check1"

\* no read happens while a store is under way, and the entry of a key gets
\* its message and its time in one step
C35_Step ==
    /\ \A c \in Callers :
          ReadsList(c) => (~ListAhead /\ Fetching("update") = {})
    /\ \A c \in Callers :
          ReadsEntry(c) => Fetching("changelog") = {}
    /\ \A k \in DOMAIN comparisonCache' :
          (k \in DOMAIN comparisonCache
             /\ comparisonCache'[k].Message # comparisonCache[k].Message)
          => comparisonCache'[k].Timestamp = now

\* C35: at most one upstream fetch per cache is in progress at any time, and
\* the payload and the fetch time of an entry are updated together under the
\* write lock: no reader ever observes a new payload with the old fetch time
\* or the reverse.
C35_OneFetchWholeEntry == []C35_Inv /\ [][C35_Step]_vars

\* a list is stored, its fetch time is not yet, and another caller waits
\* for the read lock
C35_Witness ==
    /\ ListAhead
    /\ \E c \in Callers :
          /\ call[c].pc = "check1"
          /\ call[c].kind = "update"
    /\ ~releaseCache.isNil
    /\ lastCacheUpdate # now

\* ------------------------------------------------------------------------
\* Termination of the cache calls
\* ------------------------------------------------------------------------

\* caller c is inside updateReleaseCache or getChangelogMessage
InsideCall(c) == call[c].pc \in {"check1", "lock", "fetch"}

\* the call of c has returned and, in the autocomplete handler, the
\* response is sent
CallReturned(c) ==
    /\ call[c].pc = "done"
    /\ call[c].ret \in {"nil", "err"}
    /\ call[c].handler = "autocomplete" => Len(call[c].responses) = 1

\* C36: under any number of concurrent callers of
\* handleChangelogAutocomplete, updateReleaseCache and getChangelogMessage,
\* and provided every upstream call returns, every call eventually returns:
\* no caller waits forever on the cache locks, on the success path and on
\* the error path alike.
C36_EveryCallReturns ==
    \A c \in Callers : InsideCall(c) ~> CallReturned(c)

\* a caller waits for the write lock that another caller holds during its
\* upstream call, after an earlier call has returned with an error
C36_Witness ==
    \E c, q \in Callers :
        /\ c # q
        /\ call[q].pc = "fetch"
        /\ call[c].pc = "lock"
        /\ call[c].kind = call[q].kind
        /\ releasesLog.errs + compareLog.errs >= 1

\* ------------------------------------------------------------------------
\* The target of the issue of a multi-page session
\* ------------------------------------------------------------------------

\* the last handler run called CreateIssue for the session stored under
\* its key
CalledForSession ==
    /\ lastRun.handler \in {"submit", "continuation"}
    /\ lastRun.called
    /\ lastRun.key \in DOMAIN modalStates

\* C37: the issue for a completed multi-page session is created in the
\* owner and repository stored in that session (the target configured for
\* its command and channel), with the session's title and labels, and not
\* in another command's repository.
C37_IssueTarget ==
    CalledForSession =>
        LET state == modalStates[lastRun.key] IN
        /\ lastRun.issue.owner = state.Owner
        /\ lastRun.issue.repo = state.Repo
        /\ lastRun.issue.title = state.Title
        /\ lastRun.issue.labels = state.Labels
        /\ \A cmd \in Commands \ {state.Command} :
              modalConfig[cmd].Repo # modalConfig[state.Command].Repo
                 => lastRun.issue.repo # modalConfig[cmd].Repo

\* what the handlers do pass: the title and labels of the session, with
\* the owner and repository the bot was started with
C37_TitleAndLabels ==
    CalledForSession =>
        LET state == modalStates[lastRun.key] IN
        /\ lastRun.issue.owner = "meshtastic"
        /\ lastRun.issue.repo = "firmware"
        /\ lastRun.issue.title = state.Title
        /\ lastRun.issue.labels = state.Labels

\* ------------------------------------------------------------------------
\* Sessions and the members that use them
\* ------------------------------------------------------------------------

\* the key was made by a command run of user u
KeyOf(k, u) == \E cmd \in Commands, ch \in Channels : k = StateKey(cmd, ch, u)

\* the last handler run was a Continue click or a continuation submission
\* that found the session of its key
UsedSession ==
    /\ lastRun.handler \in {"click", "continuation"}
    /\ lastRun.found

\* C38: a session created by user U is only ever displayed, merged into or
\* completed by interactions that come from user U: a Continue click or
\* continuation submission that carries U's session key but comes from
\* another user does not read or change U's session.
C38_OwnSessionOnly ==
    UsedSession => KeyOf(lastRun.key, lastRun.user)

\* ------------------------------------------------------------------------
\* C39: the repository lookup cache.  Once a repository is stored for
\* "owner/repo", a call of GetRepository for that pair returns the stored
\* repository and sends no request to GitHub; a failed request stores
\* nothing; and as long as no request for a pair has failed, at most one
\* request has been sent for it, however many first calls run together.
\* ------------------------------------------------------------------------

\* the call of c leaves its read of the cache in this step
LeavesCheck(c) == lookup[c].pc = "check" /\ lookup'[c].pc # "check"

\* a call that finds the pair stored answers from the cache
C39_Hit ==
    \A c \in Callers :
        (LeavesCheck(c) /\ lookup[c].cacheKey \in DOMAIN repoCache) =>
            /\ lookup'[c].pc = "return"
            /\ ~lookup'[c].err
            /\ lookup'[c].repository = repoCache[lookup[c].cacheKey]
            /\ repoLog' = repoLog

\* a failed request leaves the cache as it was
C39_Failure ==
    \A c \in Callers :
        (lookup[c].pc = "fetch" /\ lookup'[c].err) => repoCache' = repoCache

\* at most one request per pair while none has failed
C39_OneRequest ==
    \A k \in DOMAIN repoLog : repoLog[k].failed = 0 => repoLog[k].calls <= 1

\* C39, the first two parts alone: they hold
C39_HitsAndFailures == [][C39_Hit /\ C39_Failure]_vars

\* C39: the repository of a pair is requested once and then served from
\* the cache, and a failed request stores nothing
C39_RepositoryCache == []C39_OneRequest /\ [][C39_Hit /\ C39_Failure]_vars


====
